---- MODULE Spec2Model ----
(***************************************************************************)
(* QuizMaster API: the attempt lifecycle (StartAttempt, SubmitAnswer,      *)
(* CompleteAttempt, GetAttemptByID), the quiz lookups a student can call,  *)
(* the scoring function and the quiz leaderboard, as a state machine over  *)
(* the MongoDB collections "attempts", "quizzes" and "users".              *)
(*                                                                         *)
(* Every handler runs in its own goroutine (gin), and the collections are  *)
(* the only shared state.  A handler that reads a document and later       *)
(* writes it is therefore two steps: <Handler>Check (everything up to and  *)
(* including its last read and its validations) and <Handler>Insert or     *)
(* <Handler>Update (its single write and its response).  A single MongoDB  *)
(* operation (FindOne, InsertOne, UpdateOne, Find with a sort) is atomic.  *)
(* Scores are kept in hundredths of a point, the precision CalculateScore  *)
(* rounds to.  Storage failures of MongoDB itself are not modelled.        *)
(***************************************************************************)
EXTENDS Integers, Sequences, FiniteSets, TLC

VARIABLES attempts, quizStatus, users, handlers, clock, resp, call
\* call: the last call of a function of the scoring service made on its own
\* (its arguments and its result).

vars == <<attempts, quizStatus, users, handlers, clock, resp, call>>

(***************************************************************************)
(* Bounds of the model.                                                    *)
(***************************************************************************)
NumStudents == 2
NumQuizzes == 1
NumQuestions == 1
MaxAttempts == 2
MaxAnswers == 2
MaxClock == 1
NumHandlers == 2

Students == 1..NumStudents
QuizIds == 1..NumQuizzes
QuestionIds == 1..NumQuestions
AttemptIds == 1..MaxAttempts
Handlers == 1..NumHandlers

\* A nil *time.Time (completed_at is omitted from the document).
NoTime == -1

(***************************************************************************)
(* Quizzes and questions.  Question ids are unique across quizzes: the     *)
(* question k of quiz q has id <<q, k>>.                                   *)
(***************************************************************************)
StatusPending == "pending"
StatusApproved == "approved"
StatusRejected == "rejected"
\* The quiz document is absent from the collection (DeleteQuiz).
StatusDeleted == "deleted"

\* CreateQuiz: every question gets TimeLimit 15.
DefaultTimeLimit == 15

\* CreateQuestionRequest.Points, binding min=1: here 5 points times the ordinal.
QuestionPoints(k) == 5 * k

\* A value of Question.CorrectAnswer (an interface{}) with its dynamic type:
\* the field of the type holds the value, the other fields are zero.
StringValue(s) == [type |-> "string", s |-> s, b |-> FALSE, n |-> 0]
BoolValue(b) == [type |-> "bool", s |-> "", b |-> b, n |-> 0]
IntValue(n) == [type |-> "int", s |-> "", b |-> FALSE, n |-> n]
\* A float64, in tenths: Float64Value(15) is 1.5.
Float64Value(n) == [type |-> "float64", s |-> "", b |-> FALSE, n |-> n]
\* What the driver decodes a BSON int32 to.
Int32Value(n) == [type |-> "int32", s |-> "", b |-> FALSE, n |-> n]

QuestionTypeTrueFalse == "true_false"
QuestionTypeMultipleChoice == "multiple_choice"

\* CreateQuestionRequest.Type: odd questions are true/false questions, even
\* ones are multiple choice questions.
QuestionType(k) ==
    IF k % 2 = 1 THEN QuestionTypeTrueFalse ELSE QuestionTypeMultipleChoice

\* CreateQuestionRequest.CorrectAnswer is a string and is stored as such:
\* the answer of the true/false questions is "true", that of the multiple
\* choice questions is the option index "1".
QuestionCorrectAnswer(k) ==
    IF QuestionType(k) = QuestionTypeTrueFalse
    THEN StringValue("true") ELSE StringValue("1")

Question(q, k) ==
    [id |-> <<q, k>>, type |-> QuestionType(k),
     correct_answer |-> QuestionCorrectAnswer(k),
     time_limit |-> DefaultTimeLimit, points |-> QuestionPoints(k), order |-> k]

\* The quizzes QuizIds have NumQuestions questions.  Quiz LongQuiz, which
\* the specification of the answers has besides, has LongQuizQuestions.
LongQuiz == NumQuizzes + 2
LongQuizQuestions == 3

NumQuestionsOf(q) == IF q = LongQuiz THEN LongQuizQuestions ELSE NumQuestions

QuizQuestions(q) == [k \in 1..NumQuestionsOf(q) |-> Question(q, k)]

(***************************************************************************)
(* ScoringService.CalculateScore, in hundredths of a point.  The multiplier*)
(* 1.0 - ((t-5)/5.0)*0.3 is (100 - 6*(t-5))/100, so basePoints*multiplier  *)
(* is a whole number of hundredths and math.Round(score*100)/100 keeps it. *)
(***************************************************************************)
\* A multiplier of 70% over the whole band from 5 to 10 seconds.
ScoreMultiplierFlatBand(timeToAnswer) ==
    IF timeToAnswer <= 5 THEN 100
    ELSE IF timeToAnswer <= 10 THEN 70
    ELSE 50

\* A multiplier whose middle band ends before 10 seconds (< for <=).
ScoreMultiplierBandBelowTen(timeToAnswer) ==
    IF timeToAnswer <= 5 THEN 100
    ELSE IF timeToAnswer < 10 THEN 100 - 6 * (timeToAnswer - 5)
    ELSE 50

\* A multiplier that decays from 0 seconds on (timeToAnswer for timeToAnswer-5).
ScoreMultiplierDecayFromZero(timeToAnswer) ==
    IF timeToAnswer <= 5 THEN 100
    ELSE IF timeToAnswer <= 10 THEN 100 - 6 * timeToAnswer
    ELSE 50

ScoreMultiplier(timeToAnswer) ==
    IF timeToAnswer <= 5 THEN 100
    ELSE IF timeToAnswer <= 10 THEN 100 - 6 * (timeToAnswer - 5)
    ELSE 50

\* A score that leaves out the isCorrect test.
CalculateScoreOfAnyAnswer(basePoints, timeToAnswer, isCorrect) ==
    basePoints * ScoreMultiplier(timeToAnswer)

CalculateScore(basePoints, timeToAnswer, isCorrect) ==
    IF ~isCorrect THEN 0 ELSE basePoints * ScoreMultiplier(timeToAnswer)

(***************************************************************************)
(* Helpers over the attempts collection (a sequence in insertion order;    *)
(* the _id of an attempt is its index).                                    *)
(***************************************************************************)
RECURSIVE SumPoints(_)
SumPoints(answers) ==
    IF answers = <<>> THEN 0
    ELSE answers[1].points_earned + SumPoints(Tail(answers))

\* A max score that counts the first question only.
SumQuestionPointsOfFirst(questions, n) ==
    IF n = 0 THEN 0 ELSE 100 * questions[1].points

RECURSIVE SumQuestionPoints(_, _)
SumQuestionPoints(questions, n) ==
    IF n = 0 THEN 0
    ELSE 100 * questions[n].points + SumQuestionPoints(questions, n - 1)

InProgress(a) == a.completed_at = NoTime

\* A goroutine serving no request.
Idle == [pc |-> "idle", student |-> 0, quiz |-> 0, attempt |-> 0,
         answer |-> <<>>, max_score |-> 0, started_at |-> 0]

\* CorrectAnswer = nil in a response (JSON null).
NilAnswer == [type |-> "nil", s |-> "", b |-> FALSE, n |-> 0]

(***************************************************************************)
(* The last HTTP response written (c.JSON): the handler that wrote it, the *)
(* status code, the error message, and the parts of the body the           *)
(* properties read: the questions returned (id and correct_answer), the    *)
(* leaderboard returned, the "quiz_id" of a leaderboard response and the   *)
(* other fields of the body (body, one record or none).                    *)
(***************************************************************************)
Response(op, status, questions, leaderboard) ==
    [op |-> op, status |-> status, error |-> "",
     questions |-> questions, leaderboard |-> leaderboard,
     quiz_id |-> 0, body |-> <<>>]

\* gin.H{"error": ...} with a status code.
ErrorResponse(op, status, error) ==
    [op |-> op, status |-> status, error |-> error,
     questions |-> <<>>, leaderboard |-> <<>>,
     quiz_id |-> 0, body |-> <<>>]

\* Nothing has been written yet.
NoResponse == ErrorResponse("none", 0, "")

\* What the first part of a handler decides for a request, from the
\* collections as read: the error response it writes, or (no response yet)
\* what its write is to carry.
Rejected(response) == [response |-> response, update |-> <<>>]
Accepted(update) == [response |-> NoResponse, update |-> <<update>>]

\* No function of the scoring service has been called on its own.
NoCall == [fn |-> "none"]

\* An idle goroutine takes the request; which one is immaterial, so the
\* first idle one does.
Free(h) ==
    /\ handlers[h].pc = "idle"
    /\ \A g \in 1..(h - 1) : handlers[g].pc # "idle"

Init ==
    /\ attempts = <<>>
    /\ quizStatus = [q \in QuizIds |-> StatusApproved]
    /\ users = Students
    /\ handlers = [h \in Handlers |-> Idle]
    /\ clock = 0
    /\ resp = NoResponse
    /\ call = NoCall

\* Time passes.
Tick ==
    /\ clock < MaxClock
    /\ clock' = clock + 1
    /\ UNCHANGED <<attempts, quizStatus, users, handlers, resp, call>>

(***************************************************************************)
(* CourseService.CheckCourseCompletion: the outcome of the HTTP GET to the *)
(* external course API decides (completed, err).                           *)
(***************************************************************************)
CourseAPIOutcomes ==
    {"unreachable", "404", "500", "200_completed", "200_not_completed", "200_unreadable"}

\* A check that takes the 404 of the course API for a completed course.
CheckCourseCompletionNotFoundCompleted(http) ==
    CASE http = "unreachable" -> [completed |-> FALSE, err |-> TRUE]
      [] http = "404" -> [completed |-> TRUE, err |-> FALSE]
      [] http = "500" -> [completed |-> FALSE, err |-> TRUE]
      [] http = "200_unreadable" -> [completed |-> FALSE, err |-> TRUE]
      [] http = "200_completed" -> [completed |-> TRUE, err |-> FALSE]
      [] OTHER -> [completed |-> FALSE, err |-> FALSE]

\* A check that returns (false, nil) where the code returns an error.
CheckCourseCompletionWithoutErrors(http) ==
    [completed |-> http = "200_completed", err |-> FALSE]

CheckCourseCompletion(http) ==
    CASE http = "unreachable" -> [completed |-> FALSE, err |-> TRUE]
      [] http = "404" -> [completed |-> FALSE, err |-> FALSE]
      [] http = "500" -> [completed |-> FALSE, err |-> TRUE]
      [] http = "200_unreadable" -> [completed |-> FALSE, err |-> TRUE]
      [] http = "200_completed" -> [completed |-> TRUE, err |-> FALSE]
      [] OTHER -> [completed |-> FALSE, err |-> FALSE]

(***************************************************************************)
(* AttemptHandler.StartAttempt.                                            *)
(***************************************************************************)
\* Inserts the running handlers have still to make.
PendingInserts == Cardinality({h \in Handlers : handlers[h].pc = "start_insert"})

\* The quiz of the response: the questions with CorrectAnswer set to nil.
QuizForAttempt(q) ==
    [k \in DOMAIN QuizQuestions(q) |-> [id |-> <<q, k>>, correct_answer |-> NilAnswer]]

\* A status test that turns away rejected quizzes only.
QuizAvailableUnlessRejected(status) == status # StatusRejected

\* Line 291: quiz.Status != models.StatusApproved is turned away.
QuizAvailable(status) == status = StatusApproved

\* A filter that looks for a completed attempt ({$exists: true}).
OngoingAttemptFilterCompleted(a, q, s) ==
    a.quiz_id = q /\ a.student_id = s /\ a.completed_at # NoTime

\* The filter of the FindOne that looks for an ongoing attempt.
OngoingAttemptFilter(a, q, s) ==
    a.quiz_id = q /\ a.student_id = s /\ a.completed_at = NoTime

HasOngoingAttempt(q, s) ==
    \E i \in 1..Len(attempts) : OngoingAttemptFilter(attempts[i], q, s)

\* Lines 263-325: the lookups, the checks and the max score.
StartAttemptOutcome(s, q, http) ==
    LET cc == CheckCourseCompletion(http) IN
    IF quizStatus[q] = StatusDeleted THEN
        Rejected(ErrorResponse("StartAttempt", 404, "Quiz not found"))
    ELSE IF ~QuizAvailable(quizStatus[q]) THEN
        Rejected(ErrorResponse("StartAttempt", 403, "Quiz is not available for attempts"))
    ELSE IF cc.err THEN
        Rejected(ErrorResponse("StartAttempt", 500, "Failed to verify course completion"))
    ELSE IF ~cc.completed THEN
        Rejected(ErrorResponse("StartAttempt", 403, "You must complete the required course before attempting this quiz"))
    ELSE IF HasOngoingAttempt(q, s) THEN
        Rejected(ErrorResponse("StartAttempt", 409, "You already have an ongoing attempt for this quiz"))
    ELSE
        Accepted(SumQuestionPoints(QuizQuestions(q), Len(QuizQuestions(q))))

\* The handler up to line 325: it answers the error, or goes on to the insert.
StartAttemptCheck(h, s, q, http) ==
    /\ Free(h)
    /\ LET outcome == StartAttemptOutcome(s, q, http) IN
       IF outcome.update = <<>> THEN
           /\ resp' = outcome.response
           /\ UNCHANGED handlers
       ELSE
           /\ Len(attempts) + PendingInserts < MaxAttempts
           /\ handlers' = [handlers EXCEPT ![h] =
                  [Idle EXCEPT !.pc = "start_insert", !.student = s, !.quiz = q,
                               !.max_score = outcome.update[1]]]
           /\ UNCHANGED resp
    /\ UNCHANGED <<attempts, quizStatus, users, clock, call>>

\* Lines 327-352: time.Now(), InsertOne and the response.
StartAttemptInsert(h) ==
    /\ handlers[h].pc = "start_insert"
    /\ LET now == clock
           attempt == [id |-> Len(attempts) + 1,
                         quiz_id |-> handlers[h].quiz,
                         student_id |-> handlers[h].student,
                         answers |-> <<>>,
                         total_score |-> 0,
                         max_score |-> handlers[h].max_score,
                         started_at |-> now,
                         completed_at |-> NoTime,
                         time_taken |-> 0]
       IN /\ attempts' = Append(attempts, attempt)
          /\ resp' = Response("StartAttempt", 201, QuizForAttempt(handlers[h].quiz), <<>>)
    /\ handlers' = [handlers EXCEPT ![h] = Idle]
    /\ UNCHANGED <<quizStatus, users, clock, call>>

(***************************************************************************)
(* AttemptHandler.SubmitAnswer.                                            *)
(***************************************************************************)
\* Request values: Answer and TimeToAnswer are `binding:"required"`, which
\* rejects the zero value ("" and 0).
AnswerInputs == {"", "true", "1"}
TimeInputs == {0, 7, 16}

\* An ObjectID that names no question of any quiz.
UnknownQuestion == <<0, 1>>
QuestionInputs == {<<q, k>> : q \in QuizIds, k \in QuestionIds} \cup {UnknownQuestion}

\* ShouldBindJSON of SubmitAnswerRequest.
BindSubmitAnswer(answer, timeToAnswer) == answer # "" /\ timeToAnswer # 0

\* A filter on _id alone (the student_id condition left out).
AttemptFilterByIdOnly(a, id, s) == a.id = id

\* The filter of the FindOne that fetches the attempt: _id and student_id.
AttemptFilter(a, id, s) == a.id = id /\ a.student_id = s

FindAttempt(id, s) ==
    {i \in 1..Len(attempts) : AttemptFilter(attempts[i], id, s)}

\* A loop that takes the question by its order, whatever quiz it is of.
FindQuestionByOrder(q, questionID) ==
    {k \in DOMAIN QuizQuestions(q) : k = questionID[2]}

\* The loop over quiz.Questions: the questions whose ID is questionID.
FindQuestion(q, questionID) ==
    {k \in DOMAIN QuizQuestions(q) : QuizQuestions(q)[k].id = questionID}

\* A loop that looks at the last answer only.
AnswerAlreadySubmittedLast(answers, questionID) ==
    answers # <<>> /\ answers[Len(answers)].question_id = questionID

\* The loop over attempt.Answers of the attempt as read.
AnswerAlreadySubmitted(answers, questionID) ==
    \E i \in 1..Len(answers) : answers[i].question_id = questionID

\* A test of the completion that never finds the attempt completed.
AttemptCompletedNever(attempt) == FALSE

\* Line 413: attempt.CompletedAt != nil.
AttemptCompleted(attempt) == attempt.completed_at # NoTime

\* A test against twice the time limit.
TimeLimitExceededTwice(timeToAnswer, question) ==
    timeToAnswer > 2 * question.time_limit

\* Line 448: req.TimeToAnswer > question.TimeLimit.
TimeLimitExceeded(timeToAnswer, question) == timeToAnswer > question.time_limit

\* string(rune(code)) for the code points 47 to 61: "0" to "9" are 48 to 57.
Runes == <<"/", "0", "1", "2", "3", "4", "5", "6", "7", "8", "9", ":", ";", "<", "=">>
RuneString(code) == Runes[code - 46]

\* int(v) of a float64 v >= 0 (in tenths): the fraction is dropped.
IntOfFloat64(n) == n \div 10

\* The type switch on question.CorrectAnswer, which sets correctAnswerStr:
\* a string is taken as it is, a bool becomes "true" or "false", an int or a
\* float64 becomes the one character of code v + '0', and a value of any
\* other type leaves "".
CorrectAnswerStr(v) ==
    CASE v.type = "string" -> v.s
      [] v.type = "bool" -> (IF v.b THEN "true" ELSE "false")
      [] v.type = "int" -> RuneString(v.n + 48)
      [] v.type = "float64" -> RuneString(IntOfFloat64(v.n) + 48)
      [] OTHER -> ""

AnswerIsCorrect(question, answer) == answer = CorrectAnswerStr(question.correct_answer)

\* Answers in the collection, and those the running handlers have still to push.
RECURSIVE TotalAnswers(_)
TotalAnswers(n) ==
    IF n = 0 THEN 0 ELSE Len(attempts[n].answers) + TotalAnswers(n - 1)

PendingAnswers == Cardinality({h \in Handlers : handlers[h].pc = "answer_update"})

\* Lines 376-486: the binding, the lookups, the checks and the score.
SubmitAnswerOutcome(s, id, questionID, answer, timeToAnswer) ==
    IF ~BindSubmitAnswer(answer, timeToAnswer) THEN
        Rejected(ErrorResponse("SubmitAnswer", 400, "binding"))
    ELSE IF FindAttempt(id, s) = {} THEN
        Rejected(ErrorResponse("SubmitAnswer", 404, "Attempt not found"))
    ELSE LET attempt == attempts[id] IN
    IF AttemptCompleted(attempt) THEN
        Rejected(ErrorResponse("SubmitAnswer", 400, "This attempt is already completed"))
    ELSE IF quizStatus[attempt.quiz_id] = StatusDeleted THEN
        Rejected(ErrorResponse("SubmitAnswer", 404, "Quiz not found"))
    ELSE IF FindQuestion(attempt.quiz_id, questionID) = {} THEN
        Rejected(ErrorResponse("SubmitAnswer", 404, "Question not found in quiz"))
    ELSE LET question == QuizQuestions(attempt.quiz_id)[CHOOSE k \in FindQuestion(attempt.quiz_id, questionID) : TRUE] IN
    IF AnswerAlreadySubmitted(attempt.answers, questionID) THEN
        Rejected(ErrorResponse("SubmitAnswer", 400, "Answer already submitted for this question"))
    ELSE IF TimeLimitExceeded(timeToAnswer, question) THEN
        Rejected(ErrorResponse("SubmitAnswer", 400, "Time limit exceeded"))
    ELSE
        LET isCorrect == AnswerIsCorrect(question, answer)
            pointsEarned == CalculateScore(question.points, timeToAnswer, isCorrect)
        IN Accepted([question_id |-> questionID,
                     student_answer |-> answer,
                     is_correct |-> isCorrect,
                     time_to_answer |-> timeToAnswer,
                     points_earned |-> pointsEarned])

\* The handler up to line 486: it answers the error, or goes on to the update.
SubmitAnswerCheck(h, s, id, questionID, answer, timeToAnswer) ==
    /\ Free(h)
    /\ LET outcome == SubmitAnswerOutcome(s, id, questionID, answer, timeToAnswer) IN
       IF outcome.update = <<>> THEN
           /\ resp' = outcome.response
           /\ UNCHANGED handlers
       ELSE
           /\ TotalAnswers(Len(attempts)) + PendingAnswers < MaxAnswers
           /\ handlers' = [handlers EXCEPT ![h] =
                  [Idle EXCEPT !.pc = "answer_update", !.student = s, !.attempt = id,
                               !.answer = outcome.update]]
           /\ UNCHANGED resp
    /\ UNCHANGED <<attempts, quizStatus, users, clock, call>>

\* An update document with the $push and without the $inc.
PushAnswerWithoutInc(attempt, answer) ==
    [attempt EXCEPT !.answers = Append(@, answer)]

\* An update that writes the document back as the handler read it, in
\* progress, with the answer added.
PushAnswerToDocumentAsRead(attempt, answer) ==
    [attempt EXCEPT !.answers = Append(@, answer),
                    !.total_score = @ + answer.points_earned,
                    !.completed_at = NoTime,
                    !.time_taken = 0]

\* The update document: $push answers and $inc total_score, one UpdateOne.
PushAnswer(attempt, answer) ==
    [attempt EXCEPT !.answers = Append(@, answer),
                    !.total_score = @ + answer.points_earned]

\* Lines 488-505: UpdateOne by _id and the response.
SubmitAnswerUpdate(h) ==
    /\ handlers[h].pc = "answer_update"
    /\ LET id == handlers[h].attempt
           answer == handlers[h].answer[1]
       IN /\ attempts' = [attempts EXCEPT ![id] = PushAnswer(@, answer)]
          /\ resp' = Response("SubmitAnswer", 200, <<>>, <<>>)
    /\ handlers' = [handlers EXCEPT ![h] = Idle]
    /\ UNCHANGED <<quizStatus, users, clock, call>>

(***************************************************************************)
(* AttemptHandler.CompleteAttempt.                                         *)
(***************************************************************************)
\* Lines 520-548: the lookup and the already-completed check; an attempt that
\* passes both is to be completed, its started_at as read.
\* A handler that completes an attempt only when it holds an answer for
\* every question of the quiz.
CompleteAttemptOutcomeWhenAllAnswered(s, id) ==
    IF FindAttempt(id, s) = {} THEN
        Rejected(ErrorResponse("CompleteAttempt", 404, "Attempt not found"))
    ELSE IF attempts[id].completed_at # NoTime THEN
        Rejected(ErrorResponse("CompleteAttempt", 400, "Attempt already completed"))
    ELSE IF Len(attempts[id].answers) < NumQuestionsOf(attempts[id].quiz_id) THEN
        Rejected(ErrorResponse("CompleteAttempt", 400, "Attempt has unanswered questions"))
    ELSE
        Accepted(attempts[id].started_at)

\* A test of the completion that never finds the attempt completed.
AlreadyCompletedNever(attempt) == FALSE

\* Line 545: attempt.CompletedAt != nil.
AlreadyCompleted(attempt) == attempt.completed_at # NoTime

CompleteAttemptOutcome(s, id) ==
    IF FindAttempt(id, s) = {} THEN
        Rejected(ErrorResponse("CompleteAttempt", 404, "Attempt not found"))
    ELSE IF AlreadyCompleted(attempts[id]) THEN
        Rejected(ErrorResponse("CompleteAttempt", 400, "Attempt already completed"))
    ELSE
        Accepted(attempts[id].started_at)

CompleteAttemptCheck(h, s, id) ==
    /\ Free(h)
    /\ LET outcome == CompleteAttemptOutcome(s, id) IN
       IF outcome.update = <<>> THEN
           /\ resp' = outcome.response
           /\ UNCHANGED handlers
       ELSE
           /\ handlers' = [handlers EXCEPT ![h] =
                  [Idle EXCEPT !.pc = "complete_update", !.student = s, !.attempt = id,
                               !.started_at = outcome.update[1]]]
           /\ UNCHANGED resp
    /\ UNCHANGED <<attempts, quizStatus, users, clock, call>>

\* An update that also $sets max_score to the total reached.
SetCompletedWithMaxReached(attempt, now, timeTaken) ==
    [attempt EXCEPT !.completed_at = now, !.time_taken = timeTaken,
                    !.max_score = attempt.total_score]

\* The update document: $set completed_at and time_taken.
SetCompleted(attempt, now, timeTaken) ==
    [attempt EXCEPT !.completed_at = now, !.time_taken = timeTaken]

\* Lines 550-574: time.Now(), UpdateOne by _id, the re-read and the response.
CompleteAttemptUpdate(h) ==
    /\ handlers[h].pc = "complete_update"
    /\ LET id == handlers[h].attempt
           now == clock
           timeTaken == now - handlers[h].started_at
       IN /\ attempts' = [attempts EXCEPT ![id] = SetCompleted(@, now, timeTaken)]
          /\ resp' = Response("CompleteAttempt", 200, <<>>, <<>>)
    /\ handlers' = [handlers EXCEPT ![h] = Idle]
    /\ UNCHANGED <<quizStatus, users, clock, call>>

(***************************************************************************)
(* AttemptHandler.GetAttemptByID.                                          *)
(***************************************************************************)
GetAttemptByIDOutcome(s, id) ==
    IF FindAttempt(id, s) = {}
    THEN ErrorResponse("GetAttemptByID", 404, "Attempt not found")
    ELSE Response("GetAttemptByID", 200, <<>>, <<>>)

GetAttemptByID(s, id) ==
    /\ resp' = GetAttemptByIDOutcome(s, id)
    /\ UNCHANGED <<attempts, quizStatus, users, handlers, clock, call>>

(***************************************************************************)
(* QuizHandler.GetQuizByID and GetQuizzes, called by a student: the quiz   *)
(* documents are written to the response as they are stored.               *)
(***************************************************************************)
QuizAsStored(q) ==
    [k \in DOMAIN QuizQuestions(q) |->
        [id |-> <<q, k>>, correct_answer |-> QuizQuestions(q)[k].correct_answer]]

GetQuizByID(s, q) ==
    /\ resp' = IF quizStatus[q] = StatusDeleted
               THEN ErrorResponse("GetQuizByID", 404, "Quiz not found")
               ELSE IF quizStatus[q] # StatusApproved
               THEN ErrorResponse("GetQuizByID", 403, "Quiz not available")
               ELSE Response("GetQuizByID", 200, QuizAsStored(q), <<>>)
    /\ UNCHANGED <<attempts, quizStatus, users, handlers, clock, call>>

RECURSIVE ApprovedQuizzes(_)
ApprovedQuizzes(n) ==
    IF n = 0 THEN <<>>
    ELSE ApprovedQuizzes(n - 1) \o
         (IF quizStatus[n] = StatusApproved THEN QuizAsStored(n) ELSE <<>>)

GetQuizzes(s) ==
    /\ resp' = Response("GetQuizzes", 200, ApprovedQuizzes(NumQuizzes), <<>>)
    /\ UNCHANGED <<attempts, quizStatus, users, handlers, clock, call>>

(***************************************************************************)
(* QuizHandler.ApproveQuiz (professors only): one UpdateOne by _id, which  *)
(* sets the status whatever the status was.                                *)
(***************************************************************************)
ApproveStatusInputs == {"", StatusPending, StatusApproved, StatusRejected}

ApproveQuiz(q, status) ==
    /\ IF status = "" THEN
           /\ resp' = ErrorResponse("ApproveQuiz", 400, "binding")
           /\ UNCHANGED quizStatus
       ELSE IF status # StatusApproved /\ status # StatusRejected THEN
           /\ resp' = ErrorResponse("ApproveQuiz", 400, "Status must be 'approved' or 'rejected'")
           /\ UNCHANGED quizStatus
       ELSE IF quizStatus[q] = StatusDeleted THEN
           /\ resp' = ErrorResponse("ApproveQuiz", 404, "Quiz not found")
           /\ UNCHANGED quizStatus
       ELSE
           /\ quizStatus' = [quizStatus EXCEPT ![q] = status]
           /\ resp' = Response("ApproveQuiz", 200, <<>>, <<>>)
    /\ UNCHANGED <<attempts, users, handlers, clock, call>>

(***************************************************************************)
(* QuizHandler.DeleteQuiz: the FindOne and the permission check, then the  *)
(* DeleteOne.  The quizzes of the model were created by student 1.         *)
(***************************************************************************)
RoleProfessor == "professor"
RoleStudent == "student"
QuizCreatorID(q) == 1

\* Lines 316-342: the lookup and the permission check.
DeleteQuizCheck(h, userID, userRole, q) ==
    /\ Free(h)
    /\ IF quizStatus[q] = StatusDeleted THEN
           /\ resp' = ErrorResponse("DeleteQuiz", 404, "Quiz not found")
           /\ UNCHANGED handlers
       ELSE IF userRole # RoleProfessor /\ QuizCreatorID(q) # userID THEN
           /\ resp' = ErrorResponse("DeleteQuiz", 403, "You don't have permission to delete this quiz")
           /\ UNCHANGED handlers
       ELSE
           /\ handlers' = [handlers EXCEPT ![h] = [Idle EXCEPT !.pc = "quiz_delete", !.quiz = q]]
           /\ UNCHANGED resp
    /\ UNCHANGED <<attempts, quizStatus, users, clock, call>>

\* Lines 344-350: DeleteOne by _id and the response.
DeleteQuizDelete(h) ==
    /\ handlers[h].pc = "quiz_delete"
    /\ quizStatus' = [quizStatus EXCEPT ![handlers[h].quiz] = StatusDeleted]
    /\ resp' = Response("DeleteQuiz", 200, <<>>, <<>>)
    /\ handlers' = [handlers EXCEPT ![h] = Idle]
    /\ UNCHANGED <<attempts, users, clock, call>>

(***************************************************************************)
(* LeaderboardHandler.GetQuizLeaderboard.                                  *)
(***************************************************************************)
\* A filter on the quiz alone, without the test of completed_at.
QuizLeaderboardFilterOfQuiz(a, q) == a.quiz_id = q

\* A filter that leaves out the completed attempts of score 0.
QuizLeaderboardFilterScored(a, q) ==
    a.quiz_id = q /\ a.completed_at # NoTime /\ a.total_score > 0

\* The filter of the Find: the quiz, and completed_at exists.
QuizLeaderboardFilter(a, q) == a.quiz_id = q /\ a.completed_at # NoTime

\* A sort with time_taken descending: bson.D{total_score: -1, time_taken: -1}.
QuizLeaderboardBeforeTimeDescending(a, b) ==
    \/ a.total_score > b.total_score
    \/ a.total_score = b.total_score /\ a.time_taken > b.time_taken

\* The sort of the Find, bson.D{total_score: -1, time_taken: 1}: a sorts
\* strictly before b.
QuizLeaderboardBefore(a, b) ==
    \/ a.total_score > b.total_score
    \/ a.total_score = b.total_score /\ a.time_taken < b.time_taken

\* The orders in which the cursor may return the documents of ids: every
\* order that agrees with the sort.  MongoDB returns documents with equal
\* sort keys in any order.
CursorOrders(ids) ==
    LET n == Cardinality(ids) IN
    {f \in [1..n -> ids] :
        /\ \A i, j \in 1..n : i # j => f[i] # f[j]
        /\ \A i, j \in 1..n :
             i < j => ~QuizLeaderboardBefore(attempts[f[j]], attempts[f[i]])}

\* percentage: exact for the scores of the model, which divide evenly.
Percentage(totalScore, maxScore) ==
    IF maxScore > 0 THEN (totalScore * 100) \div maxScore ELSE 0

\* A rank that also counts the attempts skipped (rank++ before the continue).
NextRankCountingSkipped(rank, found) == rank + 1

\* The rank after an attempt of the cursor has been handled: an attempt whose
\* user is not found is skipped and leaves the rank as it is.
NextRank(rank, found) == IF found THEN rank + 1 ELSE rank

\* The loop that builds the leaderboard from the documents of the cursor,
\* from position i on, the next rank being rank.
RECURSIVE BuildLeaderboard(_, _, _)
BuildLeaderboard(order, i, rank) ==
    IF i > Len(order) THEN <<>>
    ELSE LET attempt == attempts[order[i]]
             found == attempt.student_id \in users
             entry == [rank |-> rank,
                       student_id |-> attempt.student_id,
                       score |-> attempt.total_score,
                       max_score |-> attempt.max_score,
                       percentage |-> Percentage(attempt.total_score, attempt.max_score),
                       time_taken |-> attempt.time_taken,
                       completed_at |-> attempt.completed_at]
         IN (IF found THEN <<entry>> ELSE <<>>)
            \o BuildLeaderboard(order, i + 1, NextRank(rank, found))

GetQuizLeaderboard(q) ==
    /\ LET ids == {i \in 1..Len(attempts) : QuizLeaderboardFilter(attempts[i], q)} IN
       \E order \in CursorOrders(ids) :
          resp' = [Response("GetQuizLeaderboard", 200, <<>>, BuildLeaderboard(order, 1, 1))
                       EXCEPT !.quiz_id = q]
    /\ UNCHANGED <<attempts, quizStatus, users, handlers, clock, call>>

(***************************************************************************)
(* LeaderboardHandler.GetMyRank.                                           *)
(***************************************************************************)
\* The filter of the FindOne: the quiz, the student, and completed_at exists.
MyAttemptFilter(a, q, s) ==
    a.quiz_id = q /\ a.student_id = s /\ a.completed_at # NoTime

\* The sort of the FindOne, bson.D{total_score: -1, time_taken: 1}.
MyAttemptBefore(a, b) ==
    \/ a.total_score > b.total_score
    \/ a.total_score = b.total_score /\ a.time_taken < b.time_taken

\* The documents the FindOne may return: the first of any order that agrees
\* with the sort.
BestAttempts(q, s) ==
    LET ids == {i \in 1..Len(attempts) : MyAttemptFilter(attempts[i], q, s)} IN
    {i \in ids : \A j \in ids : ~MyAttemptBefore(attempts[j], attempts[i])}

\* betterScoreFilter: the completed attempts of the quiz with a higher
\* total_score, or the same total_score and a smaller time_taken.
BetterScoreFilter(a, q, userAttempt) ==
    /\ a.quiz_id = q
    /\ a.completed_at # NoTime
    /\ \/ a.total_score > userAttempt.total_score
       \/ /\ a.total_score = userAttempt.total_score
          /\ a.time_taken < userAttempt.time_taken

\* CountDocuments(betterScoreFilter).
BetterCount(q, userAttempt) ==
    Cardinality({i \in 1..Len(attempts) : BetterScoreFilter(attempts[i], q, userAttempt)})

\* CountDocuments(totalFilter): the completed attempts of the quiz.
TotalCount(q) ==
    Cardinality({i \in 1..Len(attempts) : QuizLeaderboardFilter(attempts[i], q)})

\* The body of the 200 response, with the authenticated student it answers.
MyRankBody(q, s, userAttempt) ==
    [student_id |-> s,
     rank |-> BetterCount(q, userAttempt) + 1,
     total_participants |-> TotalCount(q),
     score |-> userAttempt.total_score,
     max_score |-> userAttempt.max_score,
     percentage |-> Percentage(userAttempt.total_score, userAttempt.max_score),
     time_taken |-> userAttempt.time_taken]

GetMyRank(s, q) ==
    /\ IF BestAttempts(q, s) = {} THEN
           resp' = ErrorResponse("GetMyRank", 404, "No completed attempts found")
       ELSE
           \E best \in BestAttempts(q, s) :
              resp' = [Response("GetMyRank", 200, <<>>, <<>>)
                          EXCEPT !.quiz_id = q,
                                 !.body = <<MyRankBody(q, s, attempts[best])>>]
    /\ UNCHANGED <<attempts, quizStatus, users, handlers, clock, call>>

(***************************************************************************)
(* LeaderboardHandler.GetGlobalLeaderboard.  avg_score is a float64 in the *)
(* code; the model keeps it as an exact fraction <<numerator, denominator>>*)
(* in lowest terms, so that equal averages are equal values.               *)
(***************************************************************************)
RECURSIVE GCD(_, _)
GCD(a, b) == IF b = 0 THEN a ELSE GCD(b, a % b)

Fraction(num, den) ==
    LET g == GCD(num, den) IN IF g = 0 THEN <<0, 1>> ELSE <<num \div g, den \div g>>

FractionAdd(x, y) == Fraction(x[1] * y[2] + y[1] * x[2], x[2] * y[2])
FractionLess(x, y) == x[1] * y[2] < y[1] * x[2]

\* A pipeline whose $match stage lets every attempt through.
GlobalMatchEveryAttempt(a) == TRUE

\* The $match stage: completed_at exists.
GlobalMatch(a) == a.completed_at # NoTime

\* {$multiply: [{$divide: ["$total_score", "$max_score"]}, 100]} of a document.
PercentageOf(a) == Fraction(100 * a.total_score, a.max_score)

RECURSIVE SumOfPercentages(_)
SumOfPercentages(ids) ==
    IF ids = {} THEN <<0, 1>>
    ELSE LET i == CHOOSE i \in ids : TRUE
         IN FractionAdd(PercentageOf(attempts[i]), SumOfPercentages(ids \ {i}))

RECURSIVE SumOfField(_, _)
SumOfField(ids, field) ==
    IF ids = {} THEN 0
    ELSE LET i == CHOOSE i \in ids : TRUE
         IN attempts[i][field] + SumOfField(ids \ {i}, field)

\* An average that divides the sum of the scores by the sum of the max scores.
AvgScoreOfSums(ids) ==
    Fraction(100 * SumOfField(ids, "total_score"), SumOfField(ids, "max_score"))

\* {$avg: ...}: the mean of the percentages of the documents of a group.
AvgScore(ids) ==
    LET sum == SumOfPercentages(ids) IN Fraction(sum[1], sum[2] * Cardinality(ids))

\* The $group stage: one result per student_id.
GlobalGroups ==
    LET matched == {i \in 1..Len(attempts) : GlobalMatch(attempts[i])}
        of(s) == {i \in matched : attempts[i].student_id = s}
    IN {[student_id |-> s,
         avg_score |-> AvgScore(of(s)),
         total_attempts |-> Cardinality(of(s)),
         total_score |-> SumOfField(of(s), "total_score")] :
            s \in {attempts[i].student_id : i \in matched}}

\* The $sort stage, {avg_score: -1}: every order of the results that agrees
\* with it (results with equal avg_score come in any order).
RECURSIVE GlobalSortOrders(_)
GlobalSortOrders(groups) ==
    IF groups = {} THEN {<<>>}
    ELSE UNION {{<<g>> \o rest : rest \in GlobalSortOrders(groups \ {g})} :
                   g \in {g \in groups :
                             \A o \in groups : ~FractionLess(g.avg_score, o.avg_score)}}

\* A pipeline without the $limit stage.
NoLimit(results, n) == results

\* The $limit stage.
Limit(results, n) ==
    IF Len(results) <= n THEN results ELSE SubSeq(results, 1, n)

GlobalLimit == 50

\* The loop that enriches the results with the users, from position i on.
RECURSIVE BuildGlobalLeaderboard(_, _, _)
BuildGlobalLeaderboard(results, i, rank) ==
    IF i > Len(results) THEN <<>>
    ELSE LET result == results[i]
             found == result.student_id \in users
             entry == [rank |-> rank,
                       student_id |-> result.student_id,
                       avg_score |-> result.avg_score,
                       total_attempts |-> result.total_attempts,
                       total_score |-> result.total_score]
         IN IF found
            THEN <<entry>> \o BuildGlobalLeaderboard(results, i + 1, rank + 1)
            ELSE BuildGlobalLeaderboard(results, i + 1, rank)

GetGlobalLeaderboard ==
    /\ \E sorted \in GlobalSortOrders(GlobalGroups) :
          resp' = Response("GetGlobalLeaderboard", 200, <<>>,
                           BuildGlobalLeaderboard(Limit(sorted, GlobalLimit), 1, 1))
    /\ UNCHANGED <<attempts, quizStatus, users, handlers, clock, call>>

(***************************************************************************)
(* The specification of the attempt lifecycle: concurrent requests of the  *)
(* students against the attempts collection.                               *)
(***************************************************************************)
Next ==
    \/ Tick
    \/ \E h \in Handlers, s \in Students, q \in QuizIds, http \in CourseAPIOutcomes :
         StartAttemptCheck(h, s, q, http)
    \/ \E h \in Handlers : StartAttemptInsert(h)
    \/ \E h \in Handlers, s \in Students, id \in AttemptIds, questionID \in QuestionInputs,
          answer \in AnswerInputs, timeToAnswer \in TimeInputs :
         SubmitAnswerCheck(h, s, id, questionID, answer, timeToAnswer)
    \/ \E h \in Handlers : SubmitAnswerUpdate(h)
    \/ \E h \in Handlers, s \in Students, id \in AttemptIds : CompleteAttemptCheck(h, s, id)
    \/ \E h \in Handlers : CompleteAttemptUpdate(h)
    \/ \E s \in Students, id \in AttemptIds : GetAttemptByID(s, id)
    \/ \E s \in Students, q \in QuizIds : GetQuizByID(s, q)
    \/ \E s \in Students : GetQuizzes(s)

Spec == Init /\ [][Next]_vars

(***************************************************************************)
(* The specification of the ranking: the leaderboard queries against an    *)
(* attempts collection that the lifecycle has filled.  The collection is   *)
(* any sequence of up to MaxLeaderboardAttempts attempts, inserted in the  *)
(* order of their start, each in progress or completed, with no answer or  *)
(* with the one correct answer given within 5 seconds; the users           *)
(* collection holds any subset of the students (GetQuizLeaderboard skips   *)
(* the attempts whose user it does not find).                              *)
(***************************************************************************)
MaxLeaderboardAttempts == 3

\* Attempts may name a quiz that DeleteQuiz has removed since.
LeaderboardQuizIds == 1..(NumQuizzes + 1)

AttemptTimes ==
    {<<s, c>> : s \in 0..MaxClock, c \in {NoTime} \cup (0..MaxClock)} \
        {<<s, c>> \in (0..MaxClock) \X (0..MaxClock) : c < s}

AttemptShapes ==
    [quiz_id : LeaderboardQuizIds, student_id : Students, answered : BOOLEAN,
     times : AttemptTimes]

StoredAttempt(id, shape) ==
    LET question == Question(shape.quiz_id, 1)
        points == CalculateScore(question.points, 4, TRUE)
        answers == IF shape.answered
                   THEN <<[question_id |-> question.id,
                           student_answer |-> CorrectAnswerStr(question.correct_answer),
                           is_correct |-> TRUE,
                           time_to_answer |-> 4,
                           points_earned |-> points]>>
                   ELSE <<>>
        completed == shape.times[2] # NoTime
    IN [id |-> id,
        quiz_id |-> shape.quiz_id,
        student_id |-> shape.student_id,
        answers |-> answers,
        total_score |-> SumPoints(answers),
        max_score |-> SumQuestionPoints(QuizQuestions(shape.quiz_id), NumQuestions),
        started_at |-> shape.times[1],
        completed_at |-> shape.times[2],
        time_taken |-> IF completed THEN shape.times[2] - shape.times[1] ELSE 0]

InitLeaderboard ==
    /\ \E n \in 0..MaxLeaderboardAttempts :
         \E shapes \in [1..n -> AttemptShapes] :
            /\ \A i \in 1..n : i < n => shapes[i].times[1] <= shapes[i + 1].times[1]
            /\ attempts = [i \in 1..n |-> StoredAttempt(i, shapes[i])]
    /\ quizStatus = [q \in QuizIds |-> StatusApproved]
    /\ users \in SUBSET Students
    /\ handlers = [h \in Handlers |-> Idle]
    /\ clock = MaxClock
    /\ resp = NoResponse
    /\ call = NoCall

NextLeaderboard ==
    \/ \E q \in LeaderboardQuizIds : GetQuizLeaderboard(q)
    \/ \E s \in Students, q \in LeaderboardQuizIds : GetMyRank(s, q)

SpecLeaderboard == InitLeaderboard /\ [][NextLeaderboard]_vars

(***************************************************************************)
(* The specification of the global ranking: GetGlobalLeaderboard against   *)
(* an attempts collection that the lifecycle has filled.  The students     *)
(* have up to MaxGlobalAttempts attempts between them, each on a quiz of   *)
(* one question worth 5 or 10 points, answered wrongly, correctly after    *)
(* more than 10 seconds or correctly within 5 seconds, and completed or    *)
(* not.  With them there may be a crowd of GlobalLimit - 1 further         *)
(* students, each with one completed attempt on a quiz of two questions    *)
(* of which they got the first right, all with different percentages.      *)
(***************************************************************************)
MaxGlobalAttempts == 2

\* Quiz NumQuizzes + 1 has one question worth 10 points (DeleteQuiz may have
\* removed the quiz since; its attempts stay).
GlobalQuizPoints(q) == IF q \in QuizIds THEN Question(q, 1).points ELSE 10
GlobalQuizMaxScore(q) ==
    IF q \in QuizIds THEN SumQuestionPoints(QuizQuestions(q), NumQuestions)
    ELSE 100 * GlobalQuizPoints(q)

GlobalShapes ==
    [student_id : Students, quiz_id : LeaderboardQuizIds,
     result : {"wrong", "slow", "fast"}, completed : BOOLEAN]

GlobalAttempt(id, shape) ==
    LET isCorrect == shape.result # "wrong"
        timeToAnswer == IF shape.result = "slow" THEN 11 ELSE 4
        points == GlobalQuizPoints(shape.quiz_id)
        answer == [question_id |-> <<shape.quiz_id, 1>>,
                   student_answer |-> IF isCorrect THEN "true" ELSE "false",
                   is_correct |-> isCorrect,
                   time_to_answer |-> timeToAnswer,
                   points_earned |-> CalculateScore(points, timeToAnswer, isCorrect)]
    IN [id |-> id,
        quiz_id |-> shape.quiz_id,
        student_id |-> shape.student_id,
        answers |-> <<answer>>,
        total_score |-> answer.points_earned,
        max_score |-> GlobalQuizMaxScore(shape.quiz_id),
        started_at |-> 0,
        completed_at |-> IF shape.completed THEN MaxClock ELSE NoTime,
        time_taken |-> IF shape.completed THEN MaxClock ELSE 0]

CrowdSize == GlobalLimit - 1
CrowdStudents == (NumStudents + 1)..(NumStudents + CrowdSize)

\* The attempt of the j-th student of the crowd, stored with _id id: the
\* questions of the quiz are worth j and GlobalLimit - j points.
CrowdAttempt(id, j) ==
    LET quiz == 100 + j
        right == [question_id |-> <<quiz, 1>>, student_answer |-> "true",
                  is_correct |-> TRUE, time_to_answer |-> 4,
                  points_earned |-> CalculateScore(j, 4, TRUE)]
        wrong == [question_id |-> <<quiz, 2>>, student_answer |-> "true",
                  is_correct |-> FALSE, time_to_answer |-> 4,
                  points_earned |-> CalculateScore(GlobalLimit - j, 4, FALSE)]
    IN [id |-> id,
        quiz_id |-> quiz,
        student_id |-> NumStudents + j,
        answers |-> <<right, wrong>>,
        total_score |-> right.points_earned + wrong.points_earned,
        max_score |-> 100 * GlobalLimit,
        started_at |-> 0,
        completed_at |-> MaxClock,
        time_taken |-> MaxClock]

InitGlobal ==
    /\ \E n \in 0..MaxGlobalAttempts, crowd \in {0, CrowdSize} :
         \E shapes \in [1..n -> GlobalShapes] :
            attempts = [i \in 1..(n + crowd) |->
                           IF i <= n THEN GlobalAttempt(i, shapes[i])
                           ELSE CrowdAttempt(i, i - n)]
    /\ quizStatus = [q \in QuizIds |-> StatusApproved]
    /\ \E present \in SUBSET Students : users = present \cup CrowdStudents
    /\ handlers = [h \in Handlers |-> Idle]
    /\ clock = MaxClock
    /\ resp = NoResponse
    /\ call = NoCall

NextGlobal == GetGlobalLeaderboard

SpecGlobal == InitGlobal /\ [][NextGlobal]_vars

(***************************************************************************)
(* The specification of the quiz status: students start and complete       *)
(* attempts and read quizzes while a professor approves, rejects and       *)
(* deletes the quizzes, which were created pending (by a student) and may  *)
(* have been approved since.                                               *)
(***************************************************************************)
InitQuizStatus ==
    /\ attempts = <<>>
    /\ quizStatus \in [QuizIds -> {StatusPending, StatusApproved}]
    /\ users = Students
    /\ handlers = [h \in Handlers |-> Idle]
    /\ clock = 0
    /\ resp = NoResponse
    /\ call = NoCall

NextQuizStatus ==
    \/ \E h \in Handlers, s \in Students, q \in QuizIds, http \in CourseAPIOutcomes :
         StartAttemptCheck(h, s, q, http)
    \/ \E h \in Handlers : StartAttemptInsert(h)
    \/ \E h \in Handlers, s \in Students, id \in AttemptIds : CompleteAttemptCheck(h, s, id)
    \/ \E h \in Handlers : CompleteAttemptUpdate(h)
    \/ \E s \in Students, q \in QuizIds : GetQuizByID(s, q)
    \/ \E q \in QuizIds, status \in ApproveStatusInputs : ApproveQuiz(q, status)
    \/ \E h \in Handlers, s \in Students, role \in {RoleProfessor, RoleStudent}, q \in QuizIds :
         DeleteQuizCheck(h, s, role, q)
    \/ \E h \in Handlers : DeleteQuizDelete(h)

SpecQuizStatus == InitQuizStatus /\ [][NextQuizStatus]_vars

(***************************************************************************)
(* The specification of the answers: a student starts attempts of quiz     *)
(* LongQuiz (LongQuizQuestions questions worth 5, 10 and 15 points),       *)
(* answers questions of that quiz and of the other quizzes, and completes  *)
(* the attempts, with concurrent requests.  The course API reports the     *)
(* course as completed.                                                    *)
(***************************************************************************)
AnswerQuizIds == QuizIds \cup {LongQuiz}

\* The questions of the quizzes, and an ObjectID that names none.
AnswerQuestionInputs ==
    UNION {{<<q, k>> : k \in 1..NumQuestionsOf(q)} : q \in AnswerQuizIds}
        \cup {UnknownQuestion}

\* Requests that pass the binding: an answer, and a time to answer within
\* the time limit of 15 seconds or beyond it.
BoundAnswerInputs == AnswerInputs \ {""}
BoundTimeInputs == TimeInputs \ {0}

InitAnswers ==
    /\ attempts = <<>>
    /\ quizStatus = [q \in AnswerQuizIds |-> StatusApproved]
    /\ users = Students
    /\ handlers = [h \in Handlers |-> Idle]
    /\ clock = 0
    /\ resp = NoResponse
    /\ call = NoCall

NextAnswers ==
    \/ Tick
    \/ \E h \in Handlers : StartAttemptCheck(h, 1, LongQuiz, "200_completed")
    \/ \E h \in Handlers : StartAttemptInsert(h)
    \/ \E h \in Handlers, id \in AttemptIds, questionID \in AnswerQuestionInputs,
          answer \in BoundAnswerInputs, timeToAnswer \in BoundTimeInputs :
         SubmitAnswerCheck(h, 1, id, questionID, answer, timeToAnswer)
    \/ \E h \in Handlers : SubmitAnswerUpdate(h)
    \/ \E h \in Handlers, id \in AttemptIds : CompleteAttemptCheck(h, 1, id)
    \/ \E h \in Handlers : CompleteAttemptUpdate(h)

SpecAnswers == InitAnswers /\ [][NextAnswers]_vars

(***************************************************************************)
(* The specification of the scoring: CalculateScore called with any base   *)
(* points from 1 (CreateQuestionRequest.Points has min=1) to MaxBasePoints,*)
(* any time to answer from -MaxTimeBelowZero (the binding of               *)
(* SubmitAnswerRequest rejects 0 only) to MaxTimeToAnswer, for a correct   *)
(* and for an incorrect answer.                                            *)
(***************************************************************************)
MaxBasePoints == 12
MaxTimeToAnswer == 20
MaxTimeBelowZero == 2

BasePointsRange == 1..MaxBasePoints
TimeToAnswerRange == (0 - MaxTimeBelowZero)..MaxTimeToAnswer

CalculateScoreCall(basePoints, timeToAnswer, isCorrect) ==
    /\ call' = [fn |-> "CalculateScore",
                basePoints |-> basePoints,
                timeToAnswer |-> timeToAnswer,
                isCorrect |-> isCorrect,
                score |-> CalculateScore(basePoints, timeToAnswer, isCorrect)]
    /\ UNCHANGED <<attempts, quizStatus, users, handlers, clock, resp>>

NextScore ==
    \E basePoints \in BasePointsRange, timeToAnswer \in TimeToAnswerRange,
       isCorrect \in BOOLEAN :
        CalculateScoreCall(basePoints, timeToAnswer, isCorrect)

SpecScore == Init /\ [][NextScore]_vars

(***************************************************************************)
(* The specification of the correctness flag: the binding of the answer of *)
(* a SubmitAnswer request and the comparison with the correct answer of    *)
(* the question (lines 453-473), for a question of either type, any value  *)
(* of Question.CorrectAnswer and any JSON value of "answer".  CreateQuiz   *)
(* stores the string of its request, whatever it is; the type switch also  *)
(* takes a bool, an int and a float64, which the model documents as the    *)
(* stored types ("bool for T/F, int for MC (index)"), and leaves "" for    *)
(* any other type, such as the int32 the driver decodes a BSON integer to. *)
(***************************************************************************)
MaxOptionIndex == 11

\* strconv.Itoa of the option indexes.
Numerals == <<"0", "1", "2", "3", "4", "5", "6", "7", "8", "9", "10", "11", "12", "13">>
OptionIndexes == 0..MaxOptionIndex

AnswerStrings ==
    {"", "true", "false", "True", "01"} \cup {Numerals[i + 1] : i \in OptionIndexes}

\* The values of Question.CorrectAnswer: CreateQuestionRequest.CorrectAnswer
\* is `binding:"required"`, so CreateQuiz stores no empty string.
CorrectAnswerValues ==
    {StringValue(s) : s \in AnswerStrings \ {""}}
        \cup {BoolValue(b) : b \in BOOLEAN}
        \cup {IntValue(i) : i \in OptionIndexes}
        \cup {Float64Value(10 * i) : i \in OptionIndexes}
        \cup {Int32Value(i) : i \in OptionIndexes}

\* The JSON values of "answer" in a request: a string, a boolean, a number
\* (in tenths, as a float64).
SubmittedValues ==
    {StringValue(s) : s \in AnswerStrings}
        \cup {BoolValue(b) : b \in BOOLEAN}
        \cup {Float64Value(10 * i) : i \in OptionIndexes}

\* ShouldBindJSON of SubmitAnswerRequest.Answer, a string that is
\* `binding:"required"`: a JSON boolean or number does not unmarshal into
\* it, and the empty string is rejected.
BindAnswerValue(v) == v.type = "string" /\ v.s # ""

\* The request up to the flag: rejected by the binding (400), or bound and
\* compared.
AnswerCheckCall(type, correctAnswer, value) ==
    /\ call' = [fn |-> "SubmitAnswer",
                type |-> type,
                correct_answer |-> correctAnswer,
                answer |-> value,
                bound |-> BindAnswerValue(value),
                is_correct |-> /\ BindAnswerValue(value)
                               /\ AnswerIsCorrect([correct_answer |-> correctAnswer],
                                                  value.s)]
    /\ UNCHANGED <<attempts, quizStatus, users, handlers, clock, resp>>

NextCorrectness ==
    \E type \in {QuestionTypeTrueFalse, QuestionTypeMultipleChoice},
       correctAnswer \in CorrectAnswerValues, value \in SubmittedValues :
        AnswerCheckCall(type, correctAnswer, value)

SpecCorrectness == Init /\ [][NextCorrectness]_vars

(***************************************************************************)
(* The specification of the round trip: the students start attempts of     *)
(* the quizzes, answer (right, in 7 seconds) or not, complete them, and    *)
(* read the quiz leaderboard, with concurrent requests.  The users         *)
(* collection holds the students throughout (no route deletes a user).     *)
(***************************************************************************)
NextRoundTrip ==
    \/ Tick
    \/ \E h \in Handlers, s \in Students, q \in QuizIds :
         StartAttemptCheck(h, s, q, "200_completed")
    \/ \E h \in Handlers : StartAttemptInsert(h)
    \/ \E h \in Handlers, s \in Students, id \in AttemptIds, questionID \in QuestionInputs :
         SubmitAnswerCheck(h, s, id, questionID, "true", 7)
    \/ \E h \in Handlers : SubmitAnswerUpdate(h)
    \/ \E h \in Handlers, s \in Students, id \in AttemptIds : CompleteAttemptCheck(h, s, id)
    \/ \E h \in Handlers : CompleteAttemptUpdate(h)
    \/ \E q \in QuizIds : GetQuizLeaderboard(q)

SpecRoundTrip == Init /\ [][NextRoundTrip]_vars

(***************************************************************************)
(* The specification of the attempt beside its quiz: the students start,   *)
(* answer and complete attempts while a professor approves, rejects and    *)
(* deletes the quizzes, with concurrent requests.                          *)
(***************************************************************************)
NextFrame ==
    \/ Tick
    \/ \E h \in Handlers, s \in Students, q \in QuizIds :
         StartAttemptCheck(h, s, q, "200_completed")
    \/ \E h \in Handlers : StartAttemptInsert(h)
    \/ \E h \in Handlers, s \in Students, id \in AttemptIds, questionID \in QuestionInputs :
         SubmitAnswerCheck(h, s, id, questionID, "true", 7)
    \/ \E h \in Handlers : SubmitAnswerUpdate(h)
    \/ \E h \in Handlers, s \in Students, id \in AttemptIds : CompleteAttemptCheck(h, s, id)
    \/ \E h \in Handlers : CompleteAttemptUpdate(h)
    \/ \E q \in QuizIds, status \in ApproveStatusInputs : ApproveQuiz(q, status)
    \/ \E h \in Handlers, s \in Students, role \in {RoleProfessor, RoleStudent}, q \in QuizIds :
         DeleteQuizCheck(h, s, role, q)
    \/ \E h \in Handlers : DeleteQuizDelete(h)

SpecFrame == InitQuizStatus /\ [][NextFrame]_vars

(***************************************************************************)
(* The specification of the course check: StartAttempt requests against    *)
(* quizzes of any status, the course API being ready to answer up to       *)
(* MaxCourseCalls calls of one request, each call in its own way.  The     *)
(* handler is run up to its decision (line 325) and the calls it made to   *)
(* the course API are counted.                                             *)
(***************************************************************************)
MaxCourseCalls == 2

\* What the course API answers to the first, second, ... call of a request.
CourseAPIAnswers == UNION {[1..n -> CourseAPIOutcomes] : n \in 1..MaxCourseCalls}

\* The calls StartAttempt makes to the course API: none when the quiz is
\* missing or not approved (lines 284-294), otherwise the one call of line
\* 297, which is one http.Get (course_service.go:38).
CourseAPICalls(q) ==
    IF quizStatus[q] = StatusDeleted \/ ~QuizAvailable(quizStatus[q]) THEN 0 ELSE 1

StartAttemptCourseCheck(s, q, answers) ==
    /\ LET outcome == StartAttemptOutcome(s, q, answers[1]) IN
       call' = [fn |-> "StartAttempt", student |-> s, quiz |-> q,
                answers |-> answers,
                calls |-> CourseAPICalls(q),
                response |-> outcome.response,
                accepted |-> outcome.update # <<>>]
    /\ UNCHANGED <<attempts, quizStatus, users, handlers, clock, resp>>

NextCourseCheck ==
    \/ \E s \in Students, q \in QuizIds, answers \in CourseAPIAnswers :
         StartAttemptCourseCheck(s, q, answers)
    \/ \E q \in QuizIds, status \in ApproveStatusInputs : ApproveQuiz(q, status)

SpecCourseCheck == InitQuizStatus /\ [][NextCourseCheck]_vars

(***************************************************************************)
(* The specification of the response times: a student starts attempts of   *)
(* quiz LongQuiz and answers its questions, with concurrent requests, the  *)
(* "time_to_answer" of a request being any JSON integer around 0 and       *)
(* around the time limit of 15 seconds.                                    *)
(***************************************************************************)
ResponseTimeInputs ==
    ((0 - MaxTimeBelowZero)..1) \cup {DefaultTimeLimit, DefaultTimeLimit + 1}

NextResponseTime ==
    \/ \E h \in Handlers : StartAttemptCheck(h, 1, LongQuiz, "200_completed")
    \/ \E h \in Handlers : StartAttemptInsert(h)
    \/ \E h \in Handlers, id \in AttemptIds, k \in 1..NumQuestionsOf(LongQuiz),
          timeToAnswer \in ResponseTimeInputs :
         SubmitAnswerCheck(h, 1, id, <<LongQuiz, k>>, "true", timeToAnswer)
    \/ \E h \in Handlers : SubmitAnswerUpdate(h)

SpecResponseTime == InitAnswers /\ [][NextResponseTime]_vars

(***************************************************************************)
(* Properties of the attempt lifecycle (checked under Spec).               *)
(***************************************************************************)
SameStudentAndQuiz(a, b) == a.student_id = b.student_id /\ a.quiz_id = b.quiz_id

\* C1: at most one attempt without a completion timestamp exists per
\* (student, quiz) pair, whatever the interleaving of StartAttempt requests.
C1_AtMostOneInProgress ==
    \A i, j \in 1..Len(attempts) :
        (i < j /\ SameStudentAndQuiz(attempts[i], attempts[j]))
            => ~(InProgress(attempts[i]) /\ InProgress(attempts[j]))

\* The points the question of an answer contributes to a total: once.
RECURSIVE PointsOnce(_, _)
PointsOnce(answers, seen) ==
    IF answers = <<>> THEN 0
    ELSE (IF answers[1].question_id \in seen THEN 0 ELSE answers[1].points_earned)
         + PointsOnce(Tail(answers), seen \cup {answers[1].question_id})

\* C2: an attempt holds at most one Answer per question, and its total score
\* contains the points of each answered question exactly once.
C2_OneAnswerPerQuestion ==
    \A n \in 1..Len(attempts) :
        LET a == attempts[n] IN
        /\ \A i, j \in 1..Len(a.answers) :
               i < j => a.answers[i].question_id # a.answers[j].question_id
        /\ a.total_score = PointsOnce(a.answers, {})

\* C3: the total score of every attempt is at most its max score.
C3_TotalAtMostMax ==
    \A n \in 1..Len(attempts) : attempts[n].total_score <= attempts[n].max_score

\* C4: once the completion timestamp of an attempt is set, no step changes
\* the completion timestamp or the time taken of that attempt.
C4_CompletionImmutable ==
    [][\A n \in 1..Len(attempts) :
          attempts[n].completed_at # NoTime =>
              /\ attempts'[n].completed_at = attempts[n].completed_at
              /\ attempts'[n].time_taken = attempts[n].time_taken]_vars

\* C5: no response a student obtains (StartAttempt, GetQuizByID, GetQuizzes)
\* holds the correct answer of a question.
C5_NoCorrectAnswerInResponse ==
    \A k \in 1..Len(resp.questions) : resp.questions[k].correct_answer = NilAnswer

\* C6: the total score of every attempt is the sum of the points earned of
\* the Answers recorded in it, in every reachable state: no step appends an
\* Answer without adding its points, or adds points without the Answer.
C6_TotalIsSumOfAnswers ==
    \A n \in 1..Len(attempts) :
        attempts[n].total_score = SumPoints(attempts[n].answers)

\* C6 witness: an attempt holds two Answers, one of them with points.
C6_Witness ==
    \E n \in 1..Len(attempts) :
        /\ Len(attempts[n].answers) = 2
        /\ attempts[n].total_score > 0
        /\ attempts[n].total_score = SumPoints(attempts[n].answers)

NotOwner(s, id) == id <= Len(attempts) /\ attempts[id].student_id # s

\* Every write a handler has still to make to an attempt is on behalf of the
\* student who created the attempt.
PendingOwned ==
    \A h \in Handlers :
        handlers[h].pc \in {"answer_update", "complete_update"} =>
            /\ handlers[h].attempt <= Len(attempts)
            /\ attempts[handlers[h].attempt].student_id = handlers[h].student

NotFound(op) == Rejected(ErrorResponse(op, 404, "Attempt not found"))

\* C7: whatever the state of the collection, a (well-formed) SubmitAnswer, a
\* CompleteAttempt or a GetAttemptByID issued on an attempt by a student who
\* did not create it is answered 404 "Attempt not found" and is given no
\* update to make; and no handler ever holds an update to an attempt for a
\* student other than its creator, so the attempt stays as it is.
C7_NonOwnerNotFound ==
    /\ PendingOwned
    /\ \A s \in Students, id \in AttemptIds :
         NotOwner(s, id) =>
           /\ GetAttemptByIDOutcome(s, id) = NotFound("GetAttemptByID").response
           /\ CompleteAttemptOutcome(s, id) = NotFound("CompleteAttempt")
           /\ \A questionID \in QuestionInputs, answer \in AnswerInputs,
                 timeToAnswer \in TimeInputs :
                BindSubmitAnswer(answer, timeToAnswer) =>
                    SubmitAnswerOutcome(s, id, questionID, answer, timeToAnswer)
                        = NotFound("SubmitAnswer")

\* C7 witness: every attempt id names an attempt, one of them with an Answer
\* and completed, and a SubmitAnswer has been answered "Attempt not found":
\* it came from a student who is not the creator.
C7_Witness ==
    /\ Len(attempts) = MaxAttempts
    /\ \E n \in 1..Len(attempts) :
          attempts[n].answers # <<>> /\ attempts[n].completed_at # NoTime
    /\ resp = ErrorResponse("SubmitAnswer", 404, "Attempt not found")

(***************************************************************************)
(* Properties of the ranking (checked under SpecLeaderboard).              *)
(***************************************************************************)
\* C8: the entries of GetQuizLeaderboard are ordered by score descending
\* and, among entries of equal score, by time taken ascending.
C8_LeaderboardOrdered ==
    \A i, j \in 1..Len(resp.leaderboard) :
        i < j =>
            LET x == resp.leaderboard[i]
                y == resp.leaderboard[j]
            IN \/ x.score > y.score
               \/ x.score = y.score /\ x.time_taken <= y.time_taken

\* C8 witness: three entries, the first two of equal score and different
\* time taken, the third of a lower score (the shape 90/40, 90/50, 80/60).
C8_Witness ==
    /\ Len(resp.leaderboard) = 3
    /\ resp.leaderboard[1].score = resp.leaderboard[2].score
    /\ resp.leaderboard[1].time_taken < resp.leaderboard[2].time_taken
    /\ resp.leaderboard[2].score > resp.leaderboard[3].score

\* C9: two entries of GetQuizLeaderboard with equal score and equal time
\* taken are ordered by completion timestamp ascending.
C9_TiesByCompletion ==
    \A i, j \in 1..Len(resp.leaderboard) :
        LET x == resp.leaderboard[i]
            y == resp.leaderboard[j]
        IN (i < j /\ x.score = y.score /\ x.time_taken = y.time_taken)
               => x.completed_at <= y.completed_at

\* C10: the ranks of the entries of GetQuizLeaderboard are 1, 2, ..., n in
\* list order.
C10_RanksArePositions ==
    \A i \in 1..Len(resp.leaderboard) : resp.leaderboard[i].rank = i

\* C10 witness: two entries with the same score and time taken, after an
\* attempt of the same quiz that was skipped for its missing user.
C10_Witness ==
    /\ Len(resp.leaderboard) = 2
    /\ resp.leaderboard[1].score = resp.leaderboard[2].score
    /\ resp.leaderboard[1].time_taken = resp.leaderboard[2].time_taken
    /\ \E n \in 1..Len(attempts) :
          /\ attempts[n].student_id \notin users
          /\ attempts[n].completed_at # NoTime
          /\ attempts[n].quiz_id = 1
          /\ attempts[n].total_score > resp.leaderboard[1].score
    /\ \A n \in 1..Len(attempts) : attempts[n].quiz_id = 1

\* The full leaderboard order: score descending, then time taken ascending,
\* then completion timestamp ascending.
FullOrderBefore(a, b) ==
    \/ a.total_score > b.total_score
    \/ a.total_score = b.total_score /\ a.time_taken < b.time_taken
    \/ /\ a.total_score = b.total_score
       /\ a.time_taken = b.time_taken
       /\ a.completed_at < b.completed_at

\* The completed attempts of quiz q, and those of them that are student s's.
CompletedOf(q) == {i \in 1..Len(attempts) : QuizLeaderboardFilter(attempts[i], q)}
CompletedBy(q, s) == {i \in CompletedOf(q) : attempts[i].student_id = s}

\* The rank of attempt i among the completed attempts of quiz q: one plus the
\* number of other attempts that strictly outrank it under the full order.
FullOrderRank(q, i) ==
    1 + Cardinality({j \in CompletedOf(q) \ {i} :
                        FullOrderBefore(attempts[j], attempts[i])})

\* C11: the rank GetMyRank returns to a student is one plus the number of
\* other completed attempts of the quiz that strictly outrank the student's
\* best attempt under the full order (score, time taken, completion time).
C11_MyRankFollowsFullOrder ==
    (resp.op = "GetMyRank" /\ resp.status = 200) =>
        LET own == CompletedBy(resp.quiz_id, resp.body[1].student_id)
            best == CHOOSE i \in own :
                        \A j \in own : ~FullOrderBefore(attempts[j], attempts[i])
        IN resp.body[1].rank = FullOrderRank(resp.quiz_id, best)

\* C12: a GetQuizLeaderboard query that follows another one for the same
\* quiz, on the same attempts and the same users, returns the same sequence
\* of entries with the same ranks.
C12_SameInputSameLeaderboard ==
    [][(/\ resp.op = "GetQuizLeaderboard"
        /\ resp'.op = "GetQuizLeaderboard"
        /\ resp'.quiz_id = resp.quiz_id
        /\ UNCHANGED <<attempts, users>>)
           => resp'.leaderboard = resp.leaderboard]_vars

(***************************************************************************)
(* Properties of the global ranking (checked under SpecGlobal).            *)
(***************************************************************************)
CompletedAttemptsOf(s) ==
    {i \in 1..Len(attempts) : attempts[i].student_id = s /\ attempts[i].completed_at # NoTime}

RECURSIVE ProductOfMaxScores(_)
ProductOfMaxScores(ids) ==
    IF ids = {} THEN 1
    ELSE LET i == CHOOSE i \in ids : TRUE
         IN attempts[i].max_score * ProductOfMaxScores(ids \ {i})

\* The sum over ids of 100 * total_score / max_score, times d, where d is a
\* multiple of every max_score.
RECURSIVE ScaledPercentages(_, _)
ScaledPercentages(ids, d) ==
    IF ids = {} THEN 0
    ELSE LET i == CHOOSE i \in ids : TRUE
         IN 100 * attempts[i].total_score * (d \div attempts[i].max_score)
                + ScaledPercentages(ids \ {i}, d)

\* avg is the mean of the percentages of the attempts ids.
IsMeanOfPercentages(avg, ids) ==
    LET d == ProductOfMaxScores(ids)
    IN avg[1] * Cardinality(ids) * d = avg[2] * ScaledPercentages(ids, d)

\* C13: the average score of each entry of GetGlobalLeaderboard is the mean
\* of the percentages (total score / max score x 100) of the student's
\* completed attempts, and counts those attempts.
C13_AverageOfPercentages ==
    resp.op = "GetGlobalLeaderboard" =>
        \A k \in 1..Len(resp.leaderboard) :
            LET e == resp.leaderboard[k]
                ids == CompletedAttemptsOf(e.student_id)
            IN /\ e.total_attempts = Cardinality(ids)
               /\ IsMeanOfPercentages(e.avg_score, ids)

\* C13 witness: a student with two completed attempts, at 50% and at 100%,
\* on quizzes of different max score, is listed with the average 75.
C13_Witness ==
    /\ resp.op = "GetGlobalLeaderboard"
    /\ \E k \in 1..Len(resp.leaderboard) :
          LET e == resp.leaderboard[k]
              ids == CompletedAttemptsOf(e.student_id)
          IN /\ e.avg_score = <<75, 1>>
             /\ \E i, j \in ids :
                   /\ attempts[i].max_score # attempts[j].max_score
                   /\ 2 * attempts[i].total_score = attempts[i].max_score
                   /\ attempts[j].total_score = attempts[j].max_score
             /\ Cardinality(ids) = 2

\* The students who have a completed attempt and are in the users collection.
RankedStudents ==
    {s \in users : CompletedAttemptsOf(s) # {}}

\* C14: the entries of GetGlobalLeaderboard are sorted by average score
\* descending, there are at most 50 of them, none of the students left out
\* has a higher average than a listed one, and the ranks are 1, 2, ..., n in
\* list order.
C14_GlobalTopSorted ==
    resp.op = "GetGlobalLeaderboard" =>
        LET lb == resp.leaderboard IN
        /\ Len(lb) <= 50
        /\ \A i, j \in 1..Len(lb) :
              i < j => ~FractionLess(lb[i].avg_score, lb[j].avg_score)
        /\ \A i \in 1..Len(lb) : lb[i].rank = i
        /\ \A s \in RankedStudents \ {lb[i].student_id : i \in 1..Len(lb)} :
              \A i \in 1..Len(lb) :
                 ~FractionLess(lb[i].avg_score, AvgScore(CompletedAttemptsOf(s)))

\* C14 witness: more than 50 students qualify, 50 are listed, and two listed
\* students have the same average.
C14_Witness ==
    /\ resp.op = "GetGlobalLeaderboard"
    /\ Cardinality(RankedStudents) > 50
    /\ Len(resp.leaderboard) = 50
    /\ \E i \in 1..(Len(resp.leaderboard) - 1) :
          resp.leaderboard[i].avg_score = resp.leaderboard[i + 1].avg_score

(***************************************************************************)
(* Properties of the scoring (checked under SpecScore).  Scores are in     *)
(* hundredths of a point: 0.88p is 88 * p.                                 *)
(***************************************************************************)
CorrectCall == call.fn = "CalculateScore" /\ call.isCorrect

C16_HalfAtTen ==
    (CorrectCall /\ call.timeToAnswer = 10) => call.score = 50 * call.basePoints

\* C16 as amended: CalculateScore(p, 10, true) is 0.7p, the end of the linear
\* decay; 0.5p is the score of the response times above 10.
C16_SeventyPercentAtTen ==
    /\ (CorrectCall /\ call.timeToAnswer = 10) => call.score = 70 * call.basePoints
    /\ (CorrectCall /\ call.timeToAnswer = 11) => call.score = 50 * call.basePoints

\* C16 witness: a correct answer after exactly 10 seconds scored 0.7p, which
\* is not 0.5p.
C16_Witness ==
    /\ CorrectCall
    /\ call.timeToAnswer = 10
    /\ call.score = 70 * call.basePoints
    /\ call.score # 50 * call.basePoints

\* C17: CalculateScore returns 0 for an incorrect answer, whatever the base
\* points and the response time.
C17_IncorrectScoresZero ==
    (call.fn = "CalculateScore" /\ ~call.isCorrect) => call.score = 0

\* C17 witness: an incorrect answer to the question worth most, given within
\* 5 seconds, scored 0.
C17_Witness ==
    /\ call.fn = "CalculateScore"
    /\ ~call.isCorrect
    /\ call.basePoints = MaxBasePoints
    /\ call.timeToAnswer <= 5
    /\ call.score = 0

\* C18: for fixed base points and correctness, CalculateScore does not
\* increase with the response time: no later time scores more than the
\* score of the call made.
C18_MonotoneInTime ==
    call.fn = "CalculateScore" =>
        \A t2 \in TimeToAnswerRange :
            call.timeToAnswer <= t2 =>
                call.score >= CalculateScore(call.basePoints, t2, call.isCorrect)

\* C18 witness: a correct answer after 10 seconds scored less than one after
\* 9 seconds and more than one after 11 seconds.
C18_Witness ==
    /\ CorrectCall
    /\ call.timeToAnswer = 10
    /\ call.score < CalculateScore(call.basePoints, 9, TRUE)
    /\ call.score > CalculateScore(call.basePoints, 11, TRUE)

(***************************************************************************)
(* Properties of StartAttempt.                                             *)
(***************************************************************************)
Conflict ==
    Rejected(ErrorResponse("StartAttempt", 409, "You already have an ongoing attempt for this quiz"))

\* Student s has an in-progress attempt of quiz q.
PairInProgress(s, q) ==
    \E n \in 1..Len(attempts) :
        /\ attempts[n].student_id = s
        /\ attempts[n].quiz_id = q
        /\ InProgress(attempts[n])

\* C19 as stated: while a pair has an in-progress attempt, every StartAttempt
\* for the pair is rejected with a conflict.
C19_AlwaysConflict ==
    \A s \in Students, q \in QuizIds :
        PairInProgress(s, q) =>
            \A http \in CourseAPIOutcomes : StartAttemptOutcome(s, q, http) = Conflict

\* The course check lets the student through.
CourseCheckPasses(http) ==
    ~CheckCourseCompletion(http).err /\ CheckCourseCompletion(http).completed

\* A StartAttempt of student s for quiz q is turned away: with the conflict
\* if the quiz is approved and the course check passes, and otherwise with
\* the error of the check that comes first.
StartBlocked(s, q) ==
    \A http \in CourseAPIOutcomes :
        LET outcome == StartAttemptOutcome(s, q, http) IN
        /\ outcome.update = <<>>
        /\ outcome.response.status \in {403, 404, 409, 500}
        /\ (QuizAvailable(quizStatus[q]) /\ CourseCheckPasses(http)) => outcome = Conflict

\* Attempt n is completed by this step, which is the update of a
\* CompleteAttempt on it.
CompletedByCompleteAttempt(n) ==
    \E h \in Handlers :
        /\ handlers[h].pc = "complete_update"
        /\ handlers[h].attempt = n
        /\ handlers'[h] = Idle
        /\ resp'.op = "CompleteAttempt"

\* C19 as amended: while a pair has an in-progress attempt, every StartAttempt
\* for the pair is rejected and gets no attempt to create - with a conflict,
\* unless the quiz or the course check turns it away first; and an
\* in-progress attempt stays in the collection, in progress, through every
\* step but the update of a CompleteAttempt on it.
C19_BlockedUntilCompleted ==
    /\ [](\A s \in Students, q \in QuizIds : PairInProgress(s, q) => StartBlocked(s, q))
    /\ [][/\ Len(attempts') >= Len(attempts)
          /\ \A n \in 1..Len(attempts) :
               InProgress(attempts[n]) =>
                   /\ attempts'[n].student_id = attempts[n].student_id
                   /\ attempts'[n].quiz_id = attempts[n].quiz_id
                   /\ InProgress(attempts'[n]) \/ CompletedByCompleteAttempt(n)]_vars

\* C19 witness: a student who has an in-progress attempt, started before the
\* last tick of the clock, has just been answered the conflict, while the
\* other attempt of the collection is completed.
C19_Witness ==
    /\ resp = Conflict.response
    /\ clock = MaxClock
    /\ \E n, m \in 1..Len(attempts) :
          /\ InProgress(attempts[n])
          /\ attempts[n].started_at < clock
          /\ ~InProgress(attempts[m])

\* A handler takes up the insert of an attempt in this step.
TakesUpInsert(h) ==
    handlers[h].pc # "start_insert" /\ handlers'[h].pc = "start_insert"

NotCompletedOutcomes == {"404", "200_not_completed"}

\* The ways the call of the course API fails: no connection, a status other
\* than 200 and 404, a body that cannot be read or parsed.
InfrastructureOutcomes == {"unreachable", "500", "200_unreadable"}

CourseNotCompleted ==
    ErrorResponse("StartAttempt", 403,
                  "You must complete the required course before attempting this quiz")

CourseCheckFailed ==
    ErrorResponse("StartAttempt", 500, "Failed to verify course completion")

\* C21: a StartAttempt whose course check says "not completed" gets no
\* attempt to create, whatever the quiz and the attempts are; the check is
\* made for an approved quiz, and the answer is then the 403 of the course
\* that is not completed.
C21_NotCompletedIsDenied ==
    \A s \in Students, q \in QuizIds, http \in NotCompletedOutcomes :
        LET outcome == StartAttemptOutcome(s, q, http) IN
        /\ outcome.update = <<>>
        /\ quizStatus[q] = StatusApproved => outcome = Rejected(CourseNotCompleted)

\* C21 witness: a StartAttempt for an approved quiz has just been answered
\* the 403 of the course check, with no insert under way, and the collection
\* holds the one attempt that was there before.
C21_Witness ==
    /\ resp = CourseNotCompleted
    /\ \E q \in QuizIds : quizStatus[q] = StatusApproved
    /\ Len(attempts) = 1
    /\ \A h \in Handlers : handlers[h].pc = "idle"

\* C22: a StartAttempt whose course check fails (no connection, unexpected
\* status, unreadable body) gets no attempt to create; for an approved quiz
\* the answer is the 500 "Failed to verify course completion", which is not
\* the 403 answered when the course is not completed.
C22_CheckFailureIsInfrastructure ==
    \A s \in Students, q \in QuizIds, http \in InfrastructureOutcomes :
        LET outcome == StartAttemptOutcome(s, q, http) IN
        /\ outcome.update = <<>>
        /\ quizStatus[q] = StatusApproved =>
               /\ outcome = Rejected(CourseCheckFailed)
               /\ outcome.response.status # CourseNotCompleted.status
               /\ \A other \in NotCompletedOutcomes :
                     StartAttemptOutcome(s, q, other) # outcome

\* C22 witness: a StartAttempt for an approved quiz has just been answered
\* the 500 of the failed course check, with no insert under way, and the
\* collection is as empty as it was.
C22_Witness ==
    /\ resp = CourseCheckFailed
    /\ \E q \in QuizIds : quizStatus[q] = StatusApproved
    /\ attempts = <<>>
    /\ \A h \in Handlers : handlers[h].pc = "idle"

(***************************************************************************)
(* Properties of SubmitAnswer and CompleteAttempt (checked under           *)
(* SpecAnswers).                                                           *)
(***************************************************************************)
\* Attempt id is in the collection and its owner asks.
Owner(id) == attempts[id].student_id
Stored(id) == id <= Len(attempts)

\* This step writes the response and neither writes to the attempts nor
\* leaves a handler with a write to make.
AnsweredWithoutWrite(response) ==
    (resp' = response /\ resp' # resp) => UNCHANGED <<attempts, handlers>>

AttemptIsCompleted ==
    ErrorResponse("SubmitAnswer", 400, "This attempt is already completed")

\* C23: once an attempt is completed in the collection, every (well-formed)
\* SubmitAnswer of its owner on it is answered 400 "This attempt is already
\* completed" and is given no update to make; the step that answers so
\* leaves the attempts as they are.
C23_CompletedRejectsAnswers ==
    /\ [](\A id \in AttemptIds :
            (Stored(id) /\ ~InProgress(attempts[id])) =>
                \A questionID \in AnswerQuestionInputs, answer \in BoundAnswerInputs,
                   timeToAnswer \in BoundTimeInputs :
                    SubmitAnswerOutcome(Owner(id), id, questionID, answer, timeToAnswer)
                        = Rejected(AttemptIsCompleted))
    /\ [][AnsweredWithoutWrite(AttemptIsCompleted)]_vars

\* C23 witness: a SubmitAnswer has just been answered "already completed",
\* every attempt of the collection is completed, one of them with an Answer,
\* and no handler has a write to make.
C23_Witness ==
    /\ resp = AttemptIsCompleted
    /\ attempts # <<>>
    /\ \A n \in 1..Len(attempts) : ~InProgress(attempts[n])
    /\ \E n \in 1..Len(attempts) : attempts[n].answers # <<>>
    /\ \A h \in Handlers : handlers[h].pc = "idle"

AlreadySubmitted ==
    ErrorResponse("SubmitAnswer", 400, "Answer already submitted for this question")

\* Attempt id holds an Answer for the question.
HasAnswerFor(id, questionID) ==
    \E i \in 1..Len(attempts[id].answers) :
        attempts[id].answers[i].question_id = questionID

\* C24: once an attempt holds an Answer for a question, every (well-formed)
\* SubmitAnswer of its owner for that question is answered 400 and is given
\* no update to make - "Answer already submitted for this question" while
\* the attempt is in progress - and the step that answers so leaves the
\* attempts as they are.
C24_DuplicateAnswerRejected ==
    /\ [](\A id \in AttemptIds, questionID \in AnswerQuestionInputs :
            (Stored(id) /\ HasAnswerFor(id, questionID)) =>
                \A answer \in BoundAnswerInputs, timeToAnswer \in BoundTimeInputs :
                    LET outcome == SubmitAnswerOutcome(Owner(id), id, questionID,
                                                       answer, timeToAnswer)
                    IN /\ outcome.update = <<>>
                       /\ outcome.response.status = 400
                       /\ InProgress(attempts[id]) => outcome = Rejected(AlreadySubmitted))
    /\ [][AnsweredWithoutWrite(AlreadySubmitted)]_vars

\* C24 witness: a SubmitAnswer has just been answered "already submitted" on
\* an in-progress attempt that holds two Answers, of different questions, and
\* no handler has a write to make.
C24_Witness ==
    /\ resp = AlreadySubmitted
    /\ \E n \in 1..Len(attempts) :
          /\ InProgress(attempts[n])
          /\ Len(attempts[n].answers) = 2
          /\ attempts[n].answers[1].question_id # attempts[n].answers[2].question_id
    /\ \A h \in Handlers : handlers[h].pc = "idle"

TimeLimitIsExceeded == ErrorResponse("SubmitAnswer", 400, "Time limit exceeded")

\* The answers the running handlers have still to push, with their attempts.
PendingPushes ==
    {<<handlers[h].attempt, handlers[h].answer[1]>> :
        h \in {g \in Handlers : handlers[g].pc = "answer_update"}}

\* The answers recorded in the attempts, with their attempts.
RecordedAnswers ==
    UNION {{<<n, attempts[n].answers[i]>> : i \in 1..Len(attempts[n].answers)} :
              n \in 1..Len(attempts)}

\* The time limit of the question <<q, k>> as CreateQuiz stored it.
TimeLimitOf(questionID) == Question(questionID[1], questionID[2]).time_limit

\* Question <<q, k>> is a question of quiz quiz.
QuestionOfQuiz(questionID, quiz) ==
    questionID[1] = quiz /\ questionID[2] \in 1..NumQuestionsOf(quiz)

\* C25: a (well-formed) SubmitAnswer of the owner of an attempt for a
\* question of its quiz, with a response time above the time limit of the
\* question, is answered 400 and is given no update to make - "Time limit
\* exceeded" if the attempt is in progress and holds no Answer for the
\* question - and the step that answers so leaves the attempts as they are;
\* every Answer recorded or about to be pushed has a response time of at
\* most the time limit of its question.
C25_TimeLimitEnforced ==
    /\ [](/\ \A id \in AttemptIds, questionID \in AnswerQuestionInputs,
                answer \in BoundAnswerInputs, timeToAnswer \in BoundTimeInputs :
                (/\ Stored(id)
                 /\ QuestionOfQuiz(questionID, attempts[id].quiz_id)
                 /\ timeToAnswer > TimeLimitOf(questionID)) =>
                    LET outcome == SubmitAnswerOutcome(Owner(id), id, questionID,
                                                       answer, timeToAnswer)
                    IN /\ outcome.update = <<>>
                       /\ outcome.response.status = 400
                       /\ (InProgress(attempts[id]) /\ ~HasAnswerFor(id, questionID))
                             => outcome = Rejected(TimeLimitIsExceeded)
          /\ \A push \in RecordedAnswers \cup PendingPushes :
                push[2].time_to_answer <= TimeLimitOf(push[2].question_id))
    /\ [][AnsweredWithoutWrite(TimeLimitIsExceeded)]_vars

\* C25 witness: a SubmitAnswer has just been answered "Time limit exceeded"
\* while an in-progress attempt holds one Answer, given in time, and no
\* handler has a write to make.
C25_Witness ==
    /\ resp = TimeLimitIsExceeded
    /\ \E n \in 1..Len(attempts) :
          /\ InProgress(attempts[n])
          /\ Len(attempts[n].answers) = 1
          /\ attempts[n].answers[1].time_to_answer > 0
    /\ \A h \in Handlers : handlers[h].pc = "idle"

QuestionNotFound == ErrorResponse("SubmitAnswer", 404, "Question not found in quiz")

\* C26: a (well-formed) SubmitAnswer of the owner of an attempt that names a
\* question which is not one of the attempt's quiz is given no update to
\* make, and is answered 404 "Question not found in quiz" while the attempt
\* is in progress; the step that answers so leaves the attempts as they are;
\* every Answer recorded or about to be pushed names a question of the quiz
\* of its attempt.
C26_QuestionOfOwnQuiz ==
    /\ [](/\ \A id \in AttemptIds, questionID \in AnswerQuestionInputs,
                answer \in BoundAnswerInputs, timeToAnswer \in BoundTimeInputs :
                (Stored(id) /\ ~QuestionOfQuiz(questionID, attempts[id].quiz_id)) =>
                    LET outcome == SubmitAnswerOutcome(Owner(id), id, questionID,
                                                       answer, timeToAnswer)
                    IN /\ outcome.update = <<>>
                       /\ InProgress(attempts[id]) => outcome = Rejected(QuestionNotFound)
          /\ \A push \in RecordedAnswers \cup PendingPushes :
                QuestionOfQuiz(push[2].question_id, attempts[push[1]].quiz_id))
    /\ [][AnsweredWithoutWrite(QuestionNotFound)]_vars

\* C26 witness: a SubmitAnswer has just been answered "Question not found in
\* quiz" while an in-progress attempt holds Answers for two questions of its
\* quiz, and no handler has a write to make.
C26_Witness ==
    /\ resp = QuestionNotFound
    /\ \E n \in 1..Len(attempts) :
          /\ InProgress(attempts[n])
          /\ Len(attempts[n].answers) = 2
          /\ attempts[n].answers[1].question_id # attempts[n].answers[2].question_id
    /\ \A h \in Handlers : handlers[h].pc = "idle"

AttemptAlreadyCompleted ==
    ErrorResponse("CompleteAttempt", 400, "Attempt already completed")

\* C27: once an attempt is completed in the collection, every CompleteAttempt
\* of its owner on it is answered 400 "Attempt already completed" and is
\* given no update to make; the step that answers so leaves the attempts,
\* and with them the completion timestamp and the time taken, as they are.
C27_CompletedRejectsComplete ==
    /\ [](\A id \in AttemptIds :
            (Stored(id) /\ ~InProgress(attempts[id])) =>
                CompleteAttemptOutcome(Owner(id), id) = Rejected(AttemptAlreadyCompleted))
    /\ [][AnsweredWithoutWrite(AttemptAlreadyCompleted)]_vars

\* C27 witness: a CompleteAttempt has just been answered "already completed"
\* at a time later than the completion of every attempt of the collection, so
\* that completing again would have changed the timestamp; no handler has a
\* write to make.
C27_Witness ==
    /\ resp = AttemptAlreadyCompleted
    /\ attempts # <<>>
    /\ \A n \in 1..Len(attempts) :
          ~InProgress(attempts[n]) /\ attempts[n].completed_at < clock
    /\ \A h \in Handlers : handlers[h].pc = "idle"

\* The sum of the base points of the first n questions of a quiz as
\* CreateQuiz stored them, in hundredths.
RECURSIVE SumBasePoints(_)
SumBasePoints(n) ==
    IF n = 0 THEN 0 ELSE 100 * QuestionPoints(n) + SumBasePoints(n - 1)

BasePointsOfQuiz(q) == SumBasePoints(NumQuestionsOf(q))

\* Attempt n is completed by this step.
BecomesCompleted(n) == InProgress(attempts[n]) /\ ~InProgress(attempts'[n])

\* C28: the CompleteAttempt of the owner of an in-progress attempt is
\* accepted whatever the number of Answers of the attempt; the step that
\* completes the attempt answers 200 and leaves its Answers, total score
\* and max score as they are; and every completed attempt has as total
\* score the sum of the points earned of its Answers and as max score the
\* sum of the base points of all questions of its quiz.
C28_PartialCompletion ==
    /\ [](/\ \A id \in AttemptIds :
                (Stored(id) /\ InProgress(attempts[id])) =>
                    CompleteAttemptOutcome(Owner(id), id).update # <<>>
          /\ \A n \in 1..Len(attempts) :
                ~InProgress(attempts[n]) =>
                    /\ attempts[n].total_score = SumPoints(attempts[n].answers)
                    /\ attempts[n].max_score = BasePointsOfQuiz(attempts[n].quiz_id))
    /\ [][\A n \in 1..Len(attempts) :
            BecomesCompleted(n) =>
                /\ resp'.op = "CompleteAttempt" /\ resp'.status = 200
                /\ attempts'[n].answers = attempts[n].answers
                /\ attempts'[n].total_score = attempts[n].total_score
                /\ attempts'[n].max_score = attempts[n].max_score]_vars

\* C28 witness: a CompleteAttempt has just succeeded, and an attempt of the
\* quiz of three questions (5 + 10 + 15 points) is completed with Answers for
\* two of them, both with points: its total is their sum, its max score 30.
C28_Witness ==
    /\ resp.op = "CompleteAttempt" /\ resp.status = 200
    /\ \E n \in 1..Len(attempts) :
          LET a == attempts[n] IN
          /\ ~InProgress(a)
          /\ NumQuestionsOf(a.quiz_id) = 3
          /\ Len(a.answers) = 2
          /\ a.answers[1].question_id # a.answers[2].question_id
          /\ a.answers[1].points_earned > 0 /\ a.answers[2].points_earned > 0
          /\ a.total_score = a.answers[1].points_earned + a.answers[2].points_earned
          /\ a.max_score = 3000

\* The handler h finishes a StartAttempt in this step.
FinishesStart(h) == handlers[h].pc = "start_insert" /\ handlers'[h] = Idle

\* C29: a StartAttempt that succeeds (201) adds exactly one attempt, of its
\* student and quiz, with no Answer, total score 0, no completion timestamp,
\* time taken 0 and, as max score, the sum of the base points of all
\* questions of the quiz; and nothing else adds an attempt.
C29_NewAttemptIsEmpty ==
    [][/\ \A h \in Handlers :
            FinishesStart(h) =>
                LET a == attempts'[Len(attempts')] IN
                /\ Len(attempts') = Len(attempts) + 1
                /\ resp'.op = "StartAttempt" /\ resp'.status = 201
                /\ a.student_id = handlers[h].student
                /\ a.quiz_id = handlers[h].quiz
                /\ a.answers = <<>>
                /\ a.total_score = 0
                /\ a.completed_at = NoTime
                /\ a.time_taken = 0
                /\ a.max_score = BasePointsOfQuiz(a.quiz_id)
       /\ Len(attempts') # Len(attempts) => \E h \in Handlers : FinishesStart(h)]_vars

\* C29 witness: a StartAttempt has just succeeded on the quiz of three
\* questions; its attempt is empty with max score 30, beside an earlier
\* attempt of the quiz that is completed and holds an Answer with points.
C29_Witness ==
    /\ resp.op = "StartAttempt" /\ resp.status = 201
    /\ Len(attempts) = 2
    /\ attempts[1].answers # <<>> /\ attempts[1].total_score > 0
    /\ ~InProgress(attempts[1])
    /\ attempts[2].quiz_id = LongQuiz
    /\ attempts[2].answers = <<>> /\ attempts[2].total_score = 0
    /\ InProgress(attempts[2])
    /\ attempts[2].max_score = 3000

(***************************************************************************)
(* Properties of the correctness flag (checked under SpecCorrectness).     *)
(***************************************************************************)
\* The boolean a value stands for, if any: a boolean, or one of the strings
\* "true" and "false" that carry it.
BooleanOf(v) ==
    CASE v.type = "bool" -> <<v.b>>
      [] v.type = "string" /\ v.s \in {"true", "false"} -> <<v.s = "true">>
      [] OTHER -> <<>>

\* The option index a value stands for, if any: an integer, a whole number,
\* or the decimal numeral that carries it.
OptionIndexOf(v) ==
    CASE v.type \in {"int", "int32"} -> <<v.n>>
      [] v.type = "float64" /\ v.n % 10 = 0 -> <<v.n \div 10>>
      [] v.type = "string" /\ (\E i \in OptionIndexes : Numerals[i + 1] = v.s) ->
            <<CHOOSE i \in OptionIndexes : Numerals[i + 1] = v.s>>
      [] OTHER -> <<>>

\* Type-appropriate equality: boolean equality for a true/false question,
\* option-index equality for a multiple choice question.
TypedEqual(type, correctAnswer, value) ==
    IF type = QuestionTypeTrueFalse
    THEN BooleanOf(value) # <<>> /\ BooleanOf(value) = BooleanOf(correctAnswer)
    ELSE OptionIndexOf(value) # <<>> /\ OptionIndexOf(value) = OptionIndexOf(correctAnswer)

\* C30: SubmitAnswer sets the correctness flag to true exactly when the
\* submitted value equals the correct answer of the question under
\* type-appropriate equality, for both booleans and every option index.
C30_ExactTypedCorrectness ==
    call.fn = "SubmitAnswer" =>
        (call.is_correct <=> TypedEqual(call.type, call.correct_answer, call.answer))

(***************************************************************************)
(* C31: an attempt is InProgress (no completion timestamp) or Completed    *)
(* (a completion timestamp, not before the start), and a Completed attempt *)
(* stays in the collection and stays Completed in every later state: no    *)
(* step removes the completion timestamp.                                  *)
(***************************************************************************)
AttemptStates ==
    \A n \in 1..Len(attempts) :
        \/ attempts[n].completed_at = NoTime
        \/ attempts[n].completed_at >= attempts[n].started_at

StaysCompleted ==
    /\ Len(attempts') >= Len(attempts)
    /\ \A n \in 1..Len(attempts) :
          attempts[n].completed_at # NoTime => attempts'[n].completed_at # NoTime

C31_CompletedStaysCompleted == []AttemptStates /\ [][StaysCompleted]_vars

\* A completed attempt after the clock has advanced past its completion,
\* while a SubmitAnswer that read it in progress is about to write to it.
C31_Witness ==
    \E n \in 1..Len(attempts), h \in Handlers :
        /\ attempts[n].completed_at # NoTime
        /\ attempts[n].completed_at < clock
        /\ handlers[h].pc = "answer_update"
        /\ handlers[h].attempt = n

(***************************************************************************)
(* C32: the entries of GetQuizLeaderboard for quiz q are, one for one, the *)
(* completed attempts of q whose student is in the users collection: no    *)
(* in-progress attempt, no attempt of another quiz and no attempt of a     *)
(* missing user has an entry, and the response is 200 also when there is   *)
(* no such attempt (checked under SpecLeaderboard).                        *)
(***************************************************************************)
ListedAttempts(q) ==
    {n \in 1..Len(attempts) :
        /\ attempts[n].quiz_id = q
        /\ attempts[n].completed_at # NoTime
        /\ attempts[n].student_id \in users}

EntryOf(entry, n) ==
    /\ entry.student_id = attempts[n].student_id
    /\ entry.score = attempts[n].total_score
    /\ entry.max_score = attempts[n].max_score
    /\ entry.time_taken = attempts[n].time_taken
    /\ entry.completed_at = attempts[n].completed_at

C32_EntriesAreCompletedAttempts ==
    resp.op = "GetQuizLeaderboard" =>
        /\ resp.status = 200
        /\ \E f \in [1..Len(resp.leaderboard) -> ListedAttempts(resp.quiz_id)] :
              /\ \A i, j \in 1..Len(resp.leaderboard) : i # j => f[i] # f[j]
              /\ \A n \in ListedAttempts(resp.quiz_id) :
                    \E i \in 1..Len(resp.leaderboard) : f[i] = n
              /\ \A i \in 1..Len(resp.leaderboard) : EntryOf(resp.leaderboard[i], f[i])

\* C32 witness: one entry, while the collection also holds an in-progress
\* attempt of the quiz and a completed attempt of the quiz whose student is
\* not in the users collection.
C32_Witness ==
    /\ resp.op = "GetQuizLeaderboard"
    /\ Len(resp.leaderboard) = 1
    /\ \E n \in 1..Len(attempts) :
          attempts[n].quiz_id = resp.quiz_id /\ attempts[n].completed_at = NoTime
    /\ \E n \in 1..Len(attempts) :
          /\ attempts[n].quiz_id = resp.quiz_id
          /\ attempts[n].completed_at # NoTime
          /\ attempts[n].student_id \notin users

(***************************************************************************)
(* C33: GetGlobalLeaderboard aggregates completed attempts only.  Every    *)
(* entry is of a student with at least one completed attempt, and its      *)
(* attempt count, score sum and average are those of the student's         *)
(* completed attempts: the in-progress attempts add nothing to them        *)
(* (checked under SpecGlobal).                                             *)
(***************************************************************************)
FinishedAttemptsOf(s) ==
    {i \in 1..Len(attempts) :
        attempts[i].student_id = s /\ attempts[i].completed_at # NoTime}

RECURSIVE SumOfTotalScores(_)
SumOfTotalScores(ids) ==
    IF ids = {} THEN 0
    ELSE LET i == CHOOSE i \in ids : TRUE
         IN attempts[i].total_score + SumOfTotalScores(ids \ {i})

C33_CompletedAttemptsOnly ==
    resp.op = "GetGlobalLeaderboard" =>
        \A k \in 1..Len(resp.leaderboard) :
            LET e == resp.leaderboard[k]
                ids == FinishedAttemptsOf(e.student_id)
            IN /\ ids # {}
               /\ e.total_attempts = Cardinality(ids)
               /\ e.total_score = SumOfTotalScores(ids)
               /\ IsMeanOfPercentages(e.avg_score, ids)

\* C33 witness: the one entry is of a student with a completed attempt at
\* 100% and an in-progress attempt with points, listed with one attempt and
\* the average 100, while the other student, in the users collection, is
\* absent.
C33_Witness ==
    /\ resp.op = "GetGlobalLeaderboard"
    /\ Len(resp.leaderboard) = 1
    /\ Students \subseteq users
    /\ LET e == resp.leaderboard[1] IN
          /\ e.total_attempts = 1
          /\ e.avg_score = <<100, 1>>
          /\ \E i \in 1..Len(attempts) :
                /\ attempts[i].student_id = e.student_id
                /\ attempts[i].completed_at = NoTime
                /\ attempts[i].total_score > 0
                /\ attempts[i].total_score < attempts[i].max_score

(***************************************************************************)
(* C34: an attempt that was started and completed with no answer recorded  *)
(* has total score 0, and a GetQuizLeaderboard of its quiz lists it with   *)
(* score 0 (checked under SpecRoundTrip; every step that writes to the     *)
(* attempts also writes the response, so a leaderboard in resp was read    *)
(* from the attempts of the state).                                        *)
(***************************************************************************)
CompletedUnanswered(n) ==
    attempts[n].completed_at # NoTime /\ attempts[n].answers = <<>>

C34_UnansweredScoresZero ==
    \A n \in 1..Len(attempts) :
        CompletedUnanswered(n) =>
            /\ attempts[n].total_score = 0
            /\ (resp.op = "GetQuizLeaderboard" /\ resp.quiz_id = attempts[n].quiz_id) =>
                  \E i \in 1..Len(resp.leaderboard) :
                      /\ resp.leaderboard[i].student_id = attempts[n].student_id
                      /\ resp.leaderboard[i].score = 0
                      /\ resp.leaderboard[i].completed_at = attempts[n].completed_at

\* C34 witness: the leaderboard lists an attempt completed with no answer,
\* score 0, below an attempt that scored.
C34_Witness ==
    /\ resp.op = "GetQuizLeaderboard"
    /\ Len(resp.leaderboard) = 2
    /\ resp.leaderboard[1].score > 0
    /\ resp.leaderboard[2].score = 0
    /\ \E n \in 1..Len(attempts) :
          /\ CompletedUnanswered(n)
          /\ attempts[n].student_id = resp.leaderboard[2].student_id

(***************************************************************************)
(* C35: no step changes the max score, the quiz reference, the student     *)
(* reference or the start timestamp of an attempt of the collection, and   *)
(* no step removes an attempt: not SubmitAnswer, not CompleteAttempt, not  *)
(* the approval or rejection of the quiz, not its deletion (checked under  *)
(* SpecFrame).                                                             *)
(***************************************************************************)
SnapshotKept ==
    /\ Len(attempts') >= Len(attempts)
    /\ \A n \in 1..Len(attempts) :
          /\ attempts'[n].max_score = attempts[n].max_score
          /\ attempts'[n].quiz_id = attempts[n].quiz_id
          /\ attempts'[n].student_id = attempts[n].student_id
          /\ attempts'[n].started_at = attempts[n].started_at

C35_SnapshotUnchanged == [][SnapshotKept]_vars

\* C35 witness: an attempt that was answered and completed and whose quiz
\* has been deleted holds the max score of its creation.
C35_Witness ==
    \E n \in 1..Len(attempts) :
        /\ attempts[n].answers # <<>>
        /\ attempts[n].completed_at # NoTime
        /\ attempts[n].total_score < attempts[n].max_score
        /\ quizStatus[attempts[n].quiz_id] = StatusDeleted
        /\ attempts[n].max_score = BasePointsOfQuiz(attempts[n].quiz_id)

(***************************************************************************)
(* C36: a StartAttempt that reports the infrastructure failure of the      *)
(* course-completion check has retried the check: it has called the        *)
(* course API more than once, and at most MaxCourseCalls times (checked    *)
(* under SpecCourseCheck).                                                 *)
(***************************************************************************)
C36_RetriesBeforeFailure ==
    (call.fn = "StartAttempt" /\ call.response = CourseCheckFailed) =>
        /\ call.calls > 1
        /\ call.calls <= MaxCourseCalls

(***************************************************************************)
(* C37: once an attempt is completed, no step appends an Answer to it or   *)
(* adds points to its total score, also when a SubmitAnswer that read the  *)
(* attempt in progress writes after the CompleteAttempt (checked under     *)
(* SpecAnswers).                                                           *)
(***************************************************************************)
AnswersFrozen ==
    \A n \in 1..Len(attempts) :
        attempts[n].completed_at # NoTime =>
            /\ attempts'[n].answers = attempts[n].answers
            /\ attempts'[n].total_score = attempts[n].total_score

C37_CompletedIsFrozen == [][AnswersFrozen]_vars

(***************************************************************************)
(* C38: a student whose attempts of an approved quiz are all completed,    *)
(* and who has completed the course, may start the quiz again (the         *)
(* StartAttempt is accepted), and the pair never has more than one         *)
(* attempt in progress (checked under Spec).                               *)
(***************************************************************************)
CompletedOfPair(s, q) ==
    {n \in 1..Len(attempts) :
        /\ attempts[n].student_id = s
        /\ attempts[n].quiz_id = q
        /\ attempts[n].completed_at # NoTime}

InProgressOfPair(s, q) ==
    {n \in 1..Len(attempts) :
        /\ attempts[n].student_id = s
        /\ attempts[n].quiz_id = q
        /\ attempts[n].completed_at = NoTime}

MayStartAgain ==
    \A s \in Students, q \in QuizIds :
        (/\ CompletedOfPair(s, q) # {}
         /\ InProgressOfPair(s, q) = {}
         /\ quizStatus[q] = StatusApproved)
            => StartAttemptOutcome(s, q, "200_completed").update # <<>>

C38_ReattemptAfterCompletion ==
    /\ MayStartAgain
    /\ \A s \in Students, q \in QuizIds : Cardinality(InProgressOfPair(s, q)) <= 1

(***************************************************************************)
(* C39: a SubmitAnswer by the owner of an in-progress attempt, for a       *)
(* question of the attempt's quiz that has no Answer yet, with a response  *)
(* time from 0 to the time limit of the question, 0 included, is accepted  *)
(* (checked under SpecResponseTime).                                       *)
(***************************************************************************)
C39_AcceptedFromZeroToLimit ==
    \A id \in 1..Len(attempts), k \in 1..NumQuestionsOf(LongQuiz),
       timeToAnswer \in ResponseTimeInputs :
        (/\ attempts[id].completed_at = NoTime
         /\ attempts[id].quiz_id = LongQuiz
         /\ ~HasAnswerFor(id, <<LongQuiz, k>>)
         /\ timeToAnswer >= 0
         /\ timeToAnswer <= TimeLimitOf(<<LongQuiz, k>>))
            => SubmitAnswerOutcome(Owner(id), id, <<LongQuiz, k>>, "true",
                                   timeToAnswer).update # <<>>

(***************************************************************************)
(* C40: every Answer recorded in an attempt has a response time of 0 or    *)
(* more (checked under SpecResponseTime).                                  *)
(***************************************************************************)
C40_NoNegativeResponseTime ==
    \A id \in 1..Len(attempts) :
        \A i \in 1..Len(attempts[id].answers) :
            attempts[id].answers[i].time_to_answer >= 0

====
